---- MODULE Spec2Model ----
(***************************************************************************)
(* Model of the CAS content uploader (tools/content_uploader/uploader.py), *)
(* of the artifact manager (artifact_manager.py), of the preset table     *)
(* (artifacts.py) and of main of the legacy script                         *)
(* (content_uploader_script.py).                                           *)
(*                                                                         *)
(* Strings are sequences of tokens, so that concatenation (a key prefix in *)
(* front of a relative path, a directory in front of a file name) and      *)
(* glob matching are computed, not assumed.  A string is always cut into   *)
(* tokens in the same way, so two token sequences are equal exactly when   *)
(* the strings they spell are.                                             *)
(***************************************************************************)
EXTENDS Integers, Sequences, FiniteSets, TLC

(***************************************************************************)
(* Bounds of the model.                                                    *)
(***************************************************************************)
\* longest list of artifact configs handed to create_upload_tasks
MaxConfigs == 2
\* longest list of artifact configs handed to upload
MaxUploadConfigs == 2
\* largest worker count handed to upload
MaxWorks == 2
\* longest list of override strings handed to override_artifacts
MaxOverrides == 2
\* largest number of calls of override_artifacts on one manager
MaxCalls == 2
\* largest number of files the globs of the legacy script match
MaxMatched == 2

MaxScriptArtifacts == 2

(***************************************************************************)
(* Program constants.                                                      *)
(***************************************************************************)
CHUNKED_ARTIFACT_NAME_PREFIX == <<"_chunked_">>
CHUNKED_DIR_ARTIFACT_NAME_PREFIX == <<"_chunked_", "dir_">>

\* the output directory the caller names (dist_dir)
DistDir == <<"dist">>

(***************************************************************************)
(* Small helpers on sequences.                                             *)
(***************************************************************************)
Range(s) == {s[i] : i \in 1..Len(s)}

SeqsUpTo(S, n) == UNION {[1..k -> S] : k \in 0..n}

\* every ordering of a finite set, as sequences without repetition
Orderings(S) ==
    {s \in [1..Cardinality(S) -> S] : \A i, j \in 1..Cardinality(S) : s[i] = s[j] => i = j}

StartsWith(s, p) == Len(s) >= Len(p) /\ SubSeq(s, 1, Len(p)) = p

(***************************************************************************)
(* ArtifactConfig and the inputs of a run.                                 *)
(***************************************************************************)
ArtifactConfig(path, unzip, standard, chunk, chunk_dir, filters) ==
    [source_path |-> path, unzip |-> unzip, standard |-> standard,
     chunk |-> chunk, chunk_dir |-> chunk_dir, exclude_filters |-> filters]

\* glob patterns: "a.zip" (searched at any depth) and "./*.zip" (anchored)
Patterns == {<<"a", ".zip">>, <<"./", "*", ".zip">>}

\* the two settings of (unzip, exclude_filters) a config is given
Flavours ==
    {[unzip |-> FALSE, exclude_filters |-> <<>>],
     [unzip |-> TRUE, exclude_filters |-> <<"f">>]}

\* the settings of (standard, chunk, chunk_dir) a config is given
ModeChoices ==
    {<<TRUE, FALSE, FALSE>>, <<FALSE, TRUE, FALSE>>, <<TRUE, TRUE, TRUE>>}

ConfigUniverse ==
    {ArtifactConfig(p, v.unzip, m[1], m[2], m[3], v.exclude_filters) :
        p \in Patterns, v \in Flavours, m \in ModeChoices}

\* entries that may exist under the output directory, by relative path
TopEntries ==
    {[path |-> <<"a", ".zip">>, isdir |-> FALSE],
     [path |-> <<"dir_", "a", ".zip">>, isdir |-> FALSE]}

DeepEntries ==
    {[path |-> <<"sub", "/", "a", ".zip">>, isdir |-> FALSE],
     [path |-> <<"sub", "/", "a", ".zip">>, isdir |-> TRUE]}

\* the contents of an output directory, in the order a scan lists them: the
\* top level in any order, then what lies below it; no path twice
FileSystems ==
    {top \o deep :
        top \in UNION {Orderings(S) : S \in SUBSET TopEntries},
        deep \in {<<>>} \cup {<<e>> : e \in DeepEntries}}

(***************************************************************************)
(* glob.glob as _glob_wrapper calls it.                                    *)
(***************************************************************************)
RECURSIVE FnMatch(_, _)
\* fnmatch of one path component: "*" matches any run of tokens
FnMatch(pat, name) ==
    IF pat = <<>> THEN name = <<>>
    ELSE IF Head(pat) = "*"
         THEN FnMatch(Tail(pat), name) \/ (name # <<>> /\ FnMatch(pat, Tail(name)))
         ELSE name # <<>> /\ Head(name) = Head(pat) /\ FnMatch(Tail(pat), Tail(name))

RECURSIVE LastSlash(_, _)
LastSlash(p, i) == IF i = 0 THEN 0 ELSE IF p[i] = "/" THEN i ELSE LastSlash(p, i - 1)

BaseName(p) == SubSeq(p, LastSlash(p, Len(p)) + 1, Len(p))

AtTopLevel(p) == LastSlash(p, Len(p)) = 0

\* the absolute path glob returns for an entry of the output directory
AbsPath(rel) == DistDir \o <<"/">> \o rel

\* mutant: a leading "./" is dropped and the pattern searched at any depth
GlobWrapperAnyDepth(fs, source_path) ==
    LET pat == IF StartsWith(source_path, <<"./">>) THEN Tail(source_path) ELSE source_path
        hit == SelectSeq(fs, LAMBDA e : FnMatch(pat, BaseName(e.path)))
    IN  [i \in 1..Len(hit) |-> AbsPath(hit[i].path)]

\* the paths _glob_wrapper's glob call returns, in scan order
GlobWrapper(fs, source_path) ==
    LET hit == IF StartsWith(source_path, <<"./">>)
               THEN SelectSeq(fs, LAMBDA e : AtTopLevel(e.path)
                                             /\ FnMatch(Tail(source_path), e.path))
               ELSE SelectSeq(fs, LAMBDA e : FnMatch(source_path, BaseName(e.path)))
    IN  [i \in 1..Len(hit) |-> AbsPath(hit[i].path)]

\* mutant: no match is taken for a directory
IsDirNever(fs, abs) == FALSE

\* os.path.isdir
IsDir(fs, abs) == \E e \in Range(fs) : AbsPath(e.path) = abs /\ e.isdir

\* os.path.relpath(path, dir) for a path under dir
GetRelativePath(dir, path) == SubSeq(path, Len(dir) + 2, Len(path))

(***************************************************************************)
(* Variations and target keys.                                             *)
(***************************************************************************)
\* mutant: both chunked modes share one prefix
ArtifactPathOnePrefix(path, artifact) ==
    IF artifact.chunk \/ artifact.chunk_dir THEN CHUNKED_ARTIFACT_NAME_PREFIX \o path
    ELSE path

\* _artifact_path
ArtifactPath(path, artifact) ==
    IF artifact.chunk THEN CHUNKED_ARTIFACT_NAME_PREFIX \o path
    ELSE IF artifact.chunk_dir THEN CHUNKED_DIR_ARTIFACT_NAME_PREFIX \o path
    ELSE path

\* mutant: the config itself is the one variation of every file
ArtifactVariationsAsConfigured(path, artifact) ==
    <<ArtifactConfig(path, artifact.unzip, artifact.standard, artifact.chunk,
                     artifact.chunk_dir, artifact.exclude_filters)>>

\* mutant: the chunked variations keep the unzip flag of the config
ArtifactVariationsKeepUnzip(path, artifact) ==
    (IF artifact.standard
     THEN <<ArtifactConfig(path, artifact.unzip, TRUE, FALSE, FALSE, artifact.exclude_filters)>>
     ELSE <<>>)
    \o
    (IF artifact.chunk
     THEN <<ArtifactConfig(path, artifact.unzip, FALSE, TRUE, FALSE, artifact.exclude_filters)>>
     ELSE <<>>)
    \o
    (IF artifact.chunk_dir
     THEN <<ArtifactConfig(path, artifact.unzip, FALSE, FALSE, TRUE, artifact.exclude_filters)>>
     ELSE <<>>)

\* _artifact_variations
ArtifactVariations(path, artifact) ==
    (IF artifact.standard
     THEN <<ArtifactConfig(path, artifact.unzip, TRUE, FALSE, FALSE, artifact.exclude_filters)>>
     ELSE <<>>)
    \o
    (IF artifact.chunk
     THEN <<ArtifactConfig(path, FALSE, FALSE, TRUE, FALSE, artifact.exclude_filters)>>
     ELSE <<>>)
    \o
    (IF artifact.chunk_dir
     THEN <<ArtifactConfig(path, TRUE, FALSE, FALSE, TRUE, artifact.exclude_filters)>>
     ELSE <<>>)

\* mutant: every task is given the same metrics file
MkStempShared(made) == 1

\* tempfile.mkstemp(dir=working_dir): a file that did not exist before, named
\* here by the number of the task it is made for
MkStemp(made) == Len(made) + 1

UploadTask(artifact, path, metrics_file) ==
    [artifact |-> artifact, path |-> path, metrics_file |-> metrics_file]

\* mutant: the test looks for the absolute path, which is never a stored key
AlreadySeenByFile(path, skip) == AbsPath(path) \in Range(skip)

\* mutant: only the key of the previous task is remembered
AlreadySeenLastOnly(path, skip) == skip # <<>> /\ skip[Len(skip)] = path

\* the test "path in skip_files" of create_upload_tasks
AlreadySeen(path, skip) == path \in Range(skip)

\* mutant: a key seen again replaces the artifact of the task that holds it
AddVariationLastWins(acc, file, path, task_artifact) ==
    IF path \in Range(acc.skip_files)
    THEN [acc EXCEPT !.tasks =
            [t \in 1..Len(acc.tasks) |->
                IF acc.tasks[t].path = path
                THEN [acc.tasks[t] EXCEPT !.artifact =
                        [task_artifact EXCEPT !.source_path = file]]
                ELSE acc.tasks[t]]]
    ELSE [tasks |-> Append(acc.tasks,
                      UploadTask([task_artifact EXCEPT !.source_path = file], path,
                                 MkStemp(acc.tasks))),
          skip_files |-> Append(acc.skip_files, path)]

\* body of the innermost loop of create_upload_tasks, for one variation;
\* acc = [tasks, skip_files]; mkstemp names a file no other task has
AddVariation(acc, file, path, task_artifact) ==
    IF AlreadySeen(path, acc.skip_files) THEN acc
    ELSE [tasks |-> Append(acc.tasks,
                      UploadTask([task_artifact EXCEPT !.source_path = file], path,
                                 MkStemp(acc.tasks))),
          skip_files |-> Append(acc.skip_files, path)]

RECURSIVE AddVariations(_, _, _, _)
AddVariations(acc, file, rel_path, variations) ==
    IF variations = <<>> THEN acc
    ELSE AddVariations(
            AddVariation(acc, file, ArtifactPath(rel_path, Head(variations)),
                         Head(variations)),
            file, rel_path, Tail(variations))

RECURSIVE AddFiles(_, _, _, _)
\* the loop "for file in files" of create_upload_tasks for one config
AddFiles(acc, fs, found, artifact) ==
    IF found = <<>> THEN acc
    ELSE LET file == Head(found)
             rel_path == GetRelativePath(DistDir, file)
         IN  IF IsDir(fs, file)
             THEN AddFiles(acc, fs, Tail(found), artifact)
             ELSE AddFiles(
                     AddVariations(acc, file, rel_path,
                                   ArtifactVariations(rel_path, artifact)),
                     fs, Tail(found), artifact)

(***************************************************************************)
(* One run of the external client, as _upload_artifact sees it.            *)
(***************************************************************************)
\* client versions a CasInfo may carry
Versions == {<<0, 9>>, <<1, 2>>, <<1, 3>>}

\* client versions whose minor number alone would decide otherwise
CommandVersions == Versions \cup {<<0, 13>>, <<2, 0>>}

\* mutant: both numbers have to be large enough
VersionAtLeastEachPart(v, w) == v[1] >= w[1] /\ v[2] >= w[2]

\* tuple comparison v >= w of two (major, minor) versions
VersionAtLeast(v, w) == v[1] > w[1] \/ (v[1] = w[1] /\ v[2] >= w[2])

DumpFileDetails(version) == VersionAtLeast(version, <<1, 0>>)

DumpMetrics(version) == VersionAtLeast(version, <<1, 3>>)

(***************************************************************************)
(* The command line _upload_artifact builds: a list of arguments, each a   *)
(* string.                                                                 *)
(***************************************************************************)
\* str(AVG_CHUNK_SIZE_IN_KB)
AVG_CHUNK_SIZE_IN_KB == <<"128">>

\* the name mkstemp gave to the n-th metrics file of the working directory
MetricsFileName(n) == <<"metrics_", ToString(n)>>

\* mutant: a chunk_dir artifact is passed as a file
PathFlagChunkDirAsFile(artifact) ==
    IF artifact.standard
    THEN <<IF artifact.unzip THEN <<"-zip-path">> ELSE <<"-file-path">>, artifact.source_path>>
    ELSE <<<<"-file-path">>, artifact.source_path>>

\* _path_flag_for_artifact
PathFlagForArtifact(artifact) ==
    IF artifact.standard
    THEN <<IF artifact.unzip THEN <<"-zip-path">> ELSE <<"-file-path">>, artifact.source_path>>
    ELSE IF artifact.chunk THEN <<<<"-file-path">>, artifact.source_path>>
    ELSE IF artifact.chunk_dir THEN <<<<"-zip-path">>, artifact.source_path>>
    ELSE <<<<"-file-path">>, artifact.source_path>>

\* the arguments of "for exclude_filter in artifact.exclude_filters"
ExcludeFilterFlags(filters) ==
    [k \in 1..(2 * Len(filters)) |->
        IF k % 2 = 1 THEN <<"-exclude-filters">> ELSE <<filters[k \div 2]>>]

\* cmd as _upload_artifact passes it to _run_uploader_command
UploaderCommand(artifact, version, metrics_file) ==
    <<<<"client_path">>, <<"-cas-instance">>, <<"INSTANCE">>, <<"-cas-addr">>, <<"SERVICE">>,
      <<"-dump-digest">>, <<"digest_file">>, <<"-use-adc">>>>
    \o PathFlagForArtifact(artifact)
    \o (IF artifact.chunk \/ artifact.chunk_dir
        THEN <<<<"-chunk">>, <<"-avg-chunk-size">>, AVG_CHUNK_SIZE_IN_KB>>
        ELSE <<>>)
    \o ExcludeFilterFlags(artifact.exclude_filters)
    \o (IF DumpFileDetails(version)
        THEN <<<<"-dump-file-details">>, <<"content_details_file">>>>
        ELSE <<>>)
    \o (IF DumpMetrics(version)
        THEN <<<<"-dump-metrics">>, MetricsFileName(metrics_file)>>
        ELSE <<>>)

ClientRun(kind, digest, details, metrics) ==
    [kind |-> kind, digest |-> digest, details |-> details, metrics |-> metrics]

\* what subprocess.run can do and what the client leaves in the digest file,
\* the file-details file and the metrics file (all created empty)
ClientRuns ==
    {ClientRun(k, "", "", "") :
        k \in {"exit_nonzero", "timeout", "subprocess_error", "os_error"}}
    \cup
    {ClientRun("exit_zero", "", "[rec]", "json"),
     ClientRun("exit_zero", "D1", "[rec]", "json"),
     ClientRun("exit_zero", "D2", "[rec]", "json"),
     ClientRun("exit_zero", "D1", "garbage", "json"),
     ClientRun("exit_zero", "D1", "[]", "")}

\* the client writes a side file only when its flag is on the command line
RunsFor(version) ==
    {[r EXCEPT !.details = IF DumpFileDetails(version) THEN @ ELSE "",
               !.metrics = IF DumpMetrics(version) THEN @ ELSE ""] : r \in ClientRuns}

NoRun == ClientRun("none", "", "", "")

\* mutant: TimeoutExpired is not caught
CaughtErrorsNoTimeout == {"exit_nonzero", "subprocess_error"}

\* the exceptions the two except clauses of _upload_artifact catch
CaughtErrors == {"exit_nonzero", "timeout", "subprocess_error"}

\* a parsed JSON value or None
NoneValue == [none |-> TRUE, items |-> <<>>]

ListValue(items) == [none |-> FALSE, items |-> items]

\* Python truthiness of such a value
Truthy(v) == ~v.none /\ v.items # <<>>

\* json.loads of the file-details file; "raises" stands for JSONDecodeError
JsonLoads(text) ==
    IF text = "[rec]" THEN [raises |-> FALSE, value |-> ListValue(<<"rec">>)]
    ELSE IF text = "[]" THEN [raises |-> FALSE, value |-> ListValue(<<>>)]
    ELSE [raises |-> TRUE, value |-> NoneValue]

\* what the future of a task holds: an exception, None or an UploadResult
Raised == [kind |-> "raised", digest |-> "", content_details |-> NoneValue]

None == [kind |-> "none", digest |-> "", content_details |-> NoneValue]

UploadResult(digest, content_details) ==
    [kind |-> "result", digest |-> digest, content_details |-> content_details]

Pending == [kind |-> "pending", digest |-> "", content_details |-> NoneValue]

\* mutant: a result is built although no digest was dumped
UploadArtifactNoDigestCheck(run, version) ==
    IF run.kind \in CaughtErrors THEN None
    ELSE IF run.kind # "exit_zero" THEN Raised
    ELSE UploadResult(run.digest,
            IF DumpFileDetails(version) /\ ~JsonLoads(run.details).raises
            THEN JsonLoads(run.details).value
            ELSE NoneValue)

\* mutant: file details that do not parse fail the task
UploadArtifactStrictDetails(run, version) ==
    IF run.kind \in CaughtErrors THEN None
    ELSE IF run.kind # "exit_zero" THEN Raised
    ELSE IF run.digest = "" THEN None
    ELSE IF DumpFileDetails(version) /\ JsonLoads(run.details).raises THEN None
    ELSE UploadResult(run.digest,
            IF DumpFileDetails(version) THEN JsonLoads(run.details).value ELSE NoneValue)

\* _upload_artifact from the point where the client has run
UploadArtifact(run, version) ==
    IF run.kind \in CaughtErrors THEN None
    ELSE IF run.kind # "exit_zero" THEN Raised
    ELSE IF run.digest = "" THEN None
    ELSE UploadResult(run.digest,
            IF DumpFileDetails(version) /\ ~JsonLoads(run.details).raises
            THEN JsonLoads(run.details).value
            ELSE NoneValue)

\* mutant: the map is replaced instead of updated
PutDigestAlone(digests, key, digest) == [k \in {key} |-> digest]

\* file_digests[key] = digest
PutDigest(digests, key, digest) ==
    [k \in DOMAIN digests \cup {key} |-> IF k = key THEN digest ELSE digests[k]]

EmptyMap == [k \in {} |-> ""]

(***************************************************************************)
(* ArtifactManager.  An ArtifactConfig is an object: the dictionaries hold *)
(* references (indices into the heap), so two dictionaries can share one.  *)
(***************************************************************************)
RECURSIVE IndexOf(_, _, _)
\* the first position from i on at which s holds tok, 0 if there is none
IndexOf(s, tok, i) ==
    IF i > Len(s) THEN 0 ELSE IF s[i] = tok THEN i ELSE IndexOf(s, tok, i + 1)

\* str.split('=', maxsplit=1)
SplitOnce(s) ==
    LET k == IndexOf(s, "=", 1)
    IN  IF k = 0 THEN <<s>> ELSE <<SubSeq(s, 1, k - 1), SubSeq(s, k + 1, Len(s))>>

RECURSIVE SplitRuns(_, _, _)
SplitRuns(s, cur, acc) ==
    IF s = <<>> THEN (IF cur = <<>> THEN acc ELSE Append(acc, cur))
    ELSE IF Head(s) = " "
         THEN SplitRuns(Tail(s), <<>>, IF cur = <<>> THEN acc ELSE Append(acc, cur))
         ELSE SplitRuns(Tail(s), Append(cur, Head(s)), acc)

\* str.split(): the runs between white space, none of them empty
SplitWhitespace(s) == SplitRuns(s, <<>>, <<>>)

\* str.lower() of one token
LowerToken(tok) ==
    CASE tok = "True" -> "true"
      [] tok = "T" -> "t"
      [] tok = "TRUE" -> "true"
      [] tok = "False" -> "false"
      [] tok = "FALSE" -> "false"
      [] tok = "F" -> "f"
      [] OTHER -> tok

Lower(s) == [i \in 1..Len(s) |-> LowerToken(s[i])]

RECURSIVE GetArtifactAttributeToggle(_, _, _)
\* mutant: a bare attribute token flips the attribute
GetArtifactAttributeToggle(tokens, attribute_name, default) ==
    IF tokens = <<>> THEN default
    ELSE LET token == Head(tokens)
         IN  IF StartsWith(token, attribute_name \o <<"=">>)
             THEN LET attr_token == Lower(SplitOnce(token)[2])
                  IN  IF attr_token \in {<<"true">>, <<"t">>, <<"1">>} THEN TRUE
                      ELSE IF attr_token \in {<<"false">>, <<"f">>, <<"0">>} THEN FALSE
                      ELSE default
             ELSE IF token = attribute_name THEN ~default
             ELSE GetArtifactAttributeToggle(Tail(tokens), attribute_name, default)

RECURSIVE GetArtifactAttributeInvalidFalse(_, _, _)
\* mutant: a value that is neither true nor false clears the attribute
GetArtifactAttributeInvalidFalse(tokens, attribute_name, default) ==
    IF tokens = <<>> THEN default
    ELSE LET token == Head(tokens)
         IN  IF StartsWith(token, attribute_name \o <<"=">>)
             THEN Lower(SplitOnce(token)[2]) \in {<<"true">>, <<"t">>, <<"1">>}
             ELSE IF token = attribute_name THEN TRUE
             ELSE GetArtifactAttributeInvalidFalse(Tail(tokens), attribute_name, default)

RECURSIVE GetArtifactAttributeByPrefix(_, _, _)
\* mutant: a token names the attribute as soon as it starts with its name
GetArtifactAttributeByPrefix(tokens, attribute_name, default) ==
    IF tokens = <<>> THEN default
    ELSE LET token == Head(tokens)
         IN  IF StartsWith(token, attribute_name)
             THEN IF Len(SplitOnce(token)) = 1 THEN TRUE
                  ELSE LET attr_token == Lower(SplitOnce(token)[2])
                       IN  IF attr_token \in {<<"true">>, <<"t">>, <<"1">>} THEN TRUE
                           ELSE IF attr_token \in {<<"false">>, <<"f">>, <<"0">>} THEN FALSE
                           ELSE default
             ELSE GetArtifactAttributeByPrefix(Tail(tokens), attribute_name, default)

RECURSIVE GetArtifactAttribute(_, _, _)
\* _get_artifact_attribute: the first token that names the attribute decides
GetArtifactAttribute(tokens, attribute_name, default) ==
    IF tokens = <<>> THEN default
    ELSE LET token == Head(tokens)
         IN  IF StartsWith(token, attribute_name \o <<"=">>)
             THEN LET attr_token == Lower(SplitOnce(token)[2])
                  IN  IF attr_token \in {<<"true">>, <<"t">>, <<"1">>} THEN TRUE
                      ELSE IF attr_token \in {<<"false">>, <<"f">>, <<"0">>} THEN FALSE
                      ELSE default
             ELSE IF token = attribute_name THEN TRUE
             ELSE GetArtifactAttribute(Tail(tokens), attribute_name, default)

\* dict[key] = value
PutEntry(dict, key, value) ==
    [k \in DOMAIN dict \cup {key} |-> IF k = key THEN value ELSE dict[k]]

\* mutant: the delete empties the dictionary
DeleteArtifactAll(dict, name) == [k \in {} |-> 0]

\* _delete_artifact
DeleteArtifact(dict, name) ==
    IF name \in DOMAIN dict THEN [k \in DOMAIN dict \ {name} |-> dict[k]] ELSE dict

\* a state of the manager: the objects and its _artifacts dictionary
ManagerState(objects, dict, raised) == [heap |-> objects, artifacts |-> dict, raised |-> raised]

\* mutant: an update starts from a new entry, as an addition does
UpdateOrCreateArtifactFresh(objects, dict, name, source_path_str) ==
    LET tokens == SplitWhitespace(source_path_str)
    IN  IF tokens = <<>> THEN ManagerState(objects, dict, TRUE)
        ELSE LET source_path == tokens[1]
                 known == name \in DOMAIN dict
                 ref == IF known THEN dict[name] ELSE Len(objects) + 1
                 artifact == ArtifactConfig(source_path, FALSE, TRUE, FALSE, FALSE, <<>>)
                 attrs == Tail(tokens)
                 updated ==
                    [artifact EXCEPT
                        !.unzip = GetArtifactAttribute(attrs, <<"unzip">>, artifact.unzip),
                        !.standard = GetArtifactAttribute(attrs, <<"standard">>, artifact.standard),
                        !.chunk = GetArtifactAttribute(attrs, <<"chunk">>, artifact.chunk),
                        !.chunk_dir = GetArtifactAttribute(attrs, <<"chunk", "_dir">>,
                                                           artifact.chunk_dir)]
             IN  ManagerState(IF known THEN [objects EXCEPT ![ref] = updated]
                              ELSE Append(objects, updated),
                              PutEntry(dict, name, ref), FALSE)

\* _update_or_create_artifact; tokens[0] of an empty list raises IndexError
UpdateOrCreateArtifact(objects, dict, name, source_path_str) ==
    LET tokens == SplitWhitespace(source_path_str)
    IN  IF tokens = <<>> THEN ManagerState(objects, dict, TRUE)
        ELSE LET source_path == tokens[1]
                 known == name \in DOMAIN dict
                 ref == IF known THEN dict[name] ELSE Len(objects) + 1
                 artifact == IF known THEN objects[ref]
                             ELSE ArtifactConfig(source_path, FALSE, TRUE, FALSE, FALSE, <<>>)
                 attrs == Tail(tokens)
                 updated ==
                    IF Len(tokens) > 1
                    THEN [artifact EXCEPT
                            !.source_path = source_path,
                            !.unzip = GetArtifactAttribute(attrs, <<"unzip">>, artifact.unzip),
                            !.standard = GetArtifactAttribute(attrs, <<"standard">>, artifact.standard),
                            !.chunk = GetArtifactAttribute(attrs, <<"chunk">>, artifact.chunk),
                            !.chunk_dir = GetArtifactAttribute(attrs, <<"chunk", "_dir">>,
                                                               artifact.chunk_dir)]
                    ELSE [artifact EXCEPT !.source_path = source_path]
             IN  ManagerState(IF known THEN [objects EXCEPT ![ref] = updated]
                              ELSE Append(objects, updated),
                              PutEntry(dict, name, ref), FALSE)

\* mutant: an override without "=" is an error that leaves override_artifacts
ProcessArtifactOverrideStrict(objects, dict, override) ==
    LET tokens == SplitOnce(override)
    IN  IF Len(tokens) # 2 THEN ManagerState(objects, dict, TRUE)
        ELSE IF tokens[2] = <<>>
             THEN ManagerState(objects, DeleteArtifact(dict, tokens[1]), FALSE)
             ELSE UpdateOrCreateArtifact(objects, dict, tokens[1], tokens[2])

\* _process_artifact_override
ProcessArtifactOverride(objects, dict, override) ==
    LET tokens == SplitOnce(override)
    IN  IF Len(tokens) # 2 THEN ManagerState(objects, dict, FALSE)
        ELSE IF tokens[2] = <<>>
             THEN ManagerState(objects, DeleteArtifact(dict, tokens[1]), FALSE)
             ELSE UpdateOrCreateArtifact(objects, dict, tokens[1], tokens[2])

\* the preset of the unit test: 'apex' and 'img'
PresetObjects ==
    <<ArtifactConfig(<<"*", ".apex">>, FALSE, TRUE, FALSE, FALSE, <<>>),
      ArtifactConfig(<<"*", "-img-", "*", "zip">>, FALSE, TRUE, TRUE, TRUE, <<>>)>>

PresetArtifacts == [k \in {<<"apex">>, <<"img">>} |-> IF k = <<"apex">> THEN 1 ELSE 2]

\* uploader.ArtifactConfig(source_path, unzip, chunk=..., chunk_dir=...,
\* exclude_filters=...) as artifacts.py calls it: standard is left at its
\* default, True
PresetConfigNoStandard(path, unzip, chunk, chunk_dir, filters) ==
    ArtifactConfig(path, unzip, FALSE, chunk, chunk_dir, filters)

PresetConfig(path, unzip, chunk, chunk_dir, filters) ==
    ArtifactConfig(path, unzip, TRUE, chunk, chunk_dir, filters)

\* the entries of the dictionary ARTIFACTS of artifacts.py, in its order
ArtifactsItems ==
    <<
      [name |-> <<"android-catbox">>,
       config |-> PresetConfig(<<"android-catbox", ".zip">>, TRUE, FALSE, FALSE, <<<<"android-catbox/jdk/.*">>>>)],
      [name |-> <<"android-csuite">>,
       config |-> PresetConfig(<<"android-csuite", ".zip">>, TRUE, FALSE, FALSE, <<<<"android-csuite/jdk/.*">>>>)],
      [name |-> <<"android-cts">>,
       config |-> PresetConfig(<<"android-cts", ".zip">>, TRUE, FALSE, FALSE, <<<<"android-cts/jdk/.*">>>>)],
      [name |-> <<"android-gcatbox">>,
       config |-> PresetConfig(<<"android-gcatbox", ".zip">>, TRUE, FALSE, FALSE, <<<<"android-gcatbox/jdk/.*">>>>)],
      [name |-> <<"android-gts">>,
       config |-> PresetConfig(<<"android-gts", ".zip">>, TRUE, FALSE, FALSE, <<<<"android-gts/jdk/.*">>>>)],
      [name |-> <<"android-mcts">>,
       config |-> PresetConfig(<<"android-mcts", ".zip">>, TRUE, FALSE, FALSE, <<>>)],
      [name |-> <<"android-mts">>,
       config |-> PresetConfig(<<"android-mts", ".zip">>, TRUE, FALSE, FALSE, <<<<"android-mts/jdk/.*">>>>)],
      [name |-> <<"android-pts">>,
       config |-> PresetConfig(<<"android-pts", ".zip">>, TRUE, FALSE, FALSE, <<<<"android-pts/jdk/.*">>>>)],
      [name |-> <<"android-sts">>,
       config |-> PresetConfig(<<"android-sts", ".zip">>, TRUE, FALSE, FALSE, <<>>)],
      [name |-> <<"android-tvts">>,
       config |-> PresetConfig(<<"android-tvts", ".zip">>, TRUE, FALSE, FALSE, <<<<"android-tvts/jdk/.*">>>>)],
      [name |-> <<"android-vts">>,
       config |-> PresetConfig(<<"android-vts", ".zip">>, TRUE, FALSE, FALSE, <<>>)],
      [name |-> <<"android-wts">>,
       config |-> PresetConfig(<<"android-wts", ".zip">>, TRUE, FALSE, FALSE, <<<<"android-wts/jdk/.*">>>>)],
      [name |-> <<"art-host-tests">>,
       config |-> PresetConfig(<<"art-host-tests", ".zip">>, TRUE, FALSE, FALSE, <<>>)],
      [name |-> <<"bazel-test-suite">>,
       config |-> PresetConfig(<<"bazel-test-suite", ".zip">>, TRUE, FALSE, FALSE, <<>>)],
      [name |-> <<"host-unit-tests">>,
       config |-> PresetConfig(<<"host-unit-tests", ".zip">>, TRUE, FALSE, FALSE, <<>>)],
      [name |-> <<"general-tests">>,
       config |-> PresetConfig(<<"general-tests", ".zip">>, TRUE, FALSE, FALSE, <<>>)],
      [name |-> <<"general-tests_configs">>,
       config |-> PresetConfig(<<"general-tests_configs", ".zip">>, TRUE, FALSE, FALSE, <<>>)],
      [name |-> <<"general-tests_host-shared-libs">>,
       config |-> PresetConfig(<<"general-tests_host-shared-libs", ".zip">>, TRUE, FALSE, FALSE, <<>>)],
      [name |-> <<"tradefed">>,
       config |-> PresetConfig(<<"tradefed", ".zip">>, TRUE, FALSE, FALSE, <<>>)],
      [name |-> <<"google-tradefed">>,
       config |-> PresetConfig(<<"google-tradefed", ".zip">>, TRUE, FALSE, FALSE, <<>>)],
      [name |-> <<"robolectric-tests">>,
       config |-> PresetConfig(<<"robolectric-tests", ".zip">>, TRUE, FALSE, FALSE, <<>>)],
      [name |-> <<"ravenwood-tests">>,
       config |-> PresetConfig(<<"ravenwood-tests", ".zip">>, TRUE, FALSE, FALSE, <<>>)],
      [name |-> <<"test_mappings">>,
       config |-> PresetConfig(<<"test_mappings", ".zip">>, TRUE, FALSE, FALSE, <<>>)],
      [name |-> <<"apex">>,
       config |-> PresetConfig(<<"*", ".apex">>, FALSE, FALSE, FALSE, <<>>)],
      [name |-> <<"apk">>,
       config |-> PresetConfig(<<"*", ".apk">>, FALSE, FALSE, FALSE, <<>>)],
      [name |-> <<"androidTest">>,
       config |-> PresetConfig(<<"androidTest", ".zip">>, TRUE, FALSE, FALSE, <<>>)],
      [name |-> <<"device-tests">>,
       config |-> PresetConfig(<<"device-tests", ".zip">>, TRUE, FALSE, FALSE, <<>>)],
      [name |-> <<"device-tests_configs">>,
       config |-> PresetConfig(<<"device-tests_configs", ".zip">>, TRUE, FALSE, FALSE, <<>>)],
      [name |-> <<"device-tests_host-shared-libs">>,
       config |-> PresetConfig(<<"device-tests_host-shared-libs", ".zip">>, TRUE, FALSE, FALSE, <<>>)],
      [name |-> <<"performance-tests">>,
       config |-> PresetConfig(<<"performance-tests", ".zip">>, TRUE, FALSE, FALSE, <<>>)],
      [name |-> <<"device-platinum-tests">>,
       config |-> PresetConfig(<<"device-platinum-tests", ".zip">>, TRUE, FALSE, FALSE, <<>>)],
      [name |-> <<"device-platinum-tests_configs">>,
       config |-> PresetConfig(<<"device-platinum-tests_configs", ".zip">>, TRUE, FALSE, FALSE, <<>>)],
      [name |-> <<"device-platinum-tests_host-shared-libs">>,
       config |-> PresetConfig(<<"device-platinum-tests_host-shared-libs", ".zip">>, TRUE, FALSE, FALSE, <<>>)],
      [name |-> <<"camera-hal-tests">>,
       config |-> PresetConfig(<<"camera-hal-tests", ".zip">>, TRUE, FALSE, FALSE, <<>>)],
      [name |-> <<"camera-hal-tests_configs">>,
       config |-> PresetConfig(<<"camera-hal-tests_configs", ".zip">>, TRUE, FALSE, FALSE, <<>>)],
      [name |-> <<"camera-hal-tests_host-shared-libs">>,
       config |-> PresetConfig(<<"camera-hal-tests_host-shared-libs", ".zip">>, TRUE, FALSE, FALSE, <<>>)],
      [name |-> <<"device-pixel-tests">>,
       config |-> PresetConfig(<<"device-pixel-tests", ".zip">>, TRUE, FALSE, FALSE, <<>>)],
      [name |-> <<"device-pixel-tests_configs">>,
       config |-> PresetConfig(<<"device-pixel-tests_configs", ".zip">>, TRUE, FALSE, FALSE, <<>>)],
      [name |-> <<"device-pixel-tests_host-shared-libs">>,
       config |-> PresetConfig(<<"device-pixel-tests_host-shared-libs", ".zip">>, TRUE, FALSE, FALSE, <<>>)],
      [name |-> <<"automotive-tests">>,
       config |-> PresetConfig(<<"automotive-tests", ".zip">>, TRUE, FALSE, FALSE, <<>>)],
      [name |-> <<"automotive-general-tests">>,
       config |-> PresetConfig(<<"automotive-general-tests", ".zip">>, TRUE, FALSE, FALSE, <<>>)],
      [name |-> <<"automotive-sdv-tests">>,
       config |-> PresetConfig(<<"automotive-sdv-tests", ".zip">>, TRUE, FALSE, FALSE, <<>>)],
      [name |-> <<"automotive-sdv-tests_configs">>,
       config |-> PresetConfig(<<"automotive-sdv-tests_configs", ".zip">>, TRUE, FALSE, FALSE, <<>>)],
      [name |-> <<"tests">>,
       config |-> PresetConfig(<<"*", "-tests-", "*", "zip">>, TRUE, FALSE, FALSE, <<>>)],
      [name |-> <<"continuous_instrumentation_tests">>,
       config |-> PresetConfig(<<"*", "-continuous_instrumentation_tests-", "*", "zip">>, TRUE, FALSE, FALSE, <<>>)],
      [name |-> <<"continuous_instrumentation_metric_tests">>,
       config |-> PresetConfig(<<"*", "-continuous_instrumentation_metric_tests-", "*", "zip">>, TRUE, FALSE, FALSE, <<>>)],
      [name |-> <<"continuous_native_tests">>,
       config |-> PresetConfig(<<"*", "-continuous_native_tests-", "*", "zip">>, TRUE, FALSE, FALSE, <<>>)],
      [name |-> <<"cvd-host_package">>,
       config |-> PresetConfig(<<"cvd-host_package", ".tar.gz">>, FALSE, FALSE, FALSE, <<>>)],
      [name |-> <<"bootloader">>,
       config |-> PresetConfig(<<"bootloader", ".img">>, FALSE, FALSE, FALSE, <<>>)],
      [name |-> <<"radio">>,
       config |-> PresetConfig(<<"radio", ".img">>, FALSE, FALSE, FALSE, <<>>)],
      [name |-> <<"target_files">>,
       config |-> PresetConfig(<<"*", "-target_files-", "*", ".zip">>, TRUE, FALSE, FALSE, <<>>)],
      [name |-> <<"img">>,
       config |-> PresetConfig(<<"*", "-img-", "*", "zip">>, FALSE, TRUE, TRUE, <<>>)]
    >>

\* ARTIFACTS: name -> ArtifactConfig
ARTIFACTS ==
    [n \in {ArtifactsItems[i].name : i \in DOMAIN ArtifactsItems} |->
        ArtifactsItems[CHOOSE i \in DOMAIN ArtifactsItems :
                          /\ ArtifactsItems[i].name = n
                          /\ \A j \in DOMAIN ArtifactsItems :
                                ArtifactsItems[j].name = n => j <= i].config]

\* the objects of ARTIFACTS and the dictionary of references to them
ArtifactsObjects == [i \in DOMAIN ArtifactsItems |-> ARTIFACTS[ArtifactsItems[i].name]]

ArtifactsRefs ==
    [n \in DOMAIN ARTIFACTS |->
        CHOOSE i \in DOMAIN ArtifactsItems :
            /\ ArtifactsItems[i].name = n
            /\ \A j \in DOMAIN ArtifactsItems : ArtifactsItems[j].name = n => j <= i]

\* override strings: no "=", deletes, a blank value, path updates, additions
\* and attribute tokens of every form
OverrideStrings ==
    {<<"invalid">>,
     <<"img", "=">>,
     <<"new", "=">>,
     <<"apex", "=", " ">>,
     <<"apex", "=", "p">>,
     <<"new", "=", "p">>,
     <<"apex", "=", "p", " ", "standard", " ", "chunk", "=", "True">>,
     <<"img", "=", "p", " ", "standard", "=", "False", " ", "chunk", "=", "F">>,
     <<"apex", "=", "p", " ", "unzip", "=", "invalid">>,
     <<"img", "=", "q", " ", "chunk", "_dir", "=", "0">>,
     <<"new", "=", "q", " ", "chunk", "_dir">>,
     <<"apex", "=", "q", " ", "unzip">>}

\* the attributes an override can name
AttributeNames == {<<"unzip">>, <<"standard">>, <<"chunk">>, <<"chunk", "_dir">>}

\* what an attribute token can carry after its "=": the spellings of true
\* and false, a word that is neither, and nothing
AttributeValues ==
    {<<"true">>, <<"True">>, <<"TRUE">>, <<"t">>, <<"T">>, <<"1">>,
     <<"false">>, <<"False">>, <<"FALSE">>, <<"f">>, <<"F">>, <<"0">>,
     <<"invalid">>, <<>>}

\* an attribute token as the caller means it: ATTR on its own or ATTR=VALUE
AttributeSettings ==
    {[attr |-> n, bare |-> TRUE, value |-> <<>>] : n \in AttributeNames}
    \cup {[attr |-> n, bare |-> FALSE, value |-> v] : n \in AttributeNames, v \in AttributeValues}

\* the settings that are combined two by two
PairedSettings ==
    {a \in AttributeSettings : a.bare \/ a.value \in {<<"0">>, <<"invalid">>}}

\* an override as the caller means it: a name, a path and at most two
\* attribute tokens, which name different attributes
OverrideDescriptions ==
    {[name |-> n, source_path |-> <<"q">>, attrs |-> l] :
        n \in {<<"apex">>, <<"img">>, <<"new">>},
        l \in {<<>>} \cup {<<a>> : a \in AttributeSettings}
              \cup {l2 \in PairedSettings \X PairedSettings : l2[1].attr # l2[2].attr}}

\* the text of one attribute token
AttributeToken(a) == IF a.bare THEN a.attr ELSE a.attr \o <<"=">> \o a.value

RECURSIVE JoinAttributes(_)
JoinAttributes(attrs) ==
    IF attrs = <<>> THEN <<>>
    ELSE <<" ">> \o AttributeToken(Head(attrs)) \o JoinAttributes(Tail(attrs))

\* the override string 'name=source_path attributes'
ComposeOverride(d) == d.name \o <<"=">> \o d.source_path \o JoinAttributes(d.attrs)

(***************************************************************************)
(* State.                                                                  *)
(***************************************************************************)
VARIABLES
    artifacts,        \* the list of ArtifactConfig passed in
    files,            \* the entries under the output directory, in scan order
    client_version,   \* CasInfo.client_version
    max_works,        \* the worker bound passed to upload
    dryrun,           \* the dryrun flag passed to upload
    pc,               \* where the calling thread is
    globbed,          \* config index -> result of its glob worker
    consumed,         \* number of glob results the loop has taken
    tasks,            \* the task list
    skip_files,       \* the keys already given to a task
    scratch,          \* the metrics files that exist in the working directory
    status,           \* task index -> state of its future
    runs,             \* task index -> what its client run did
    results,          \* task index -> what its future holds
    invocations,      \* task index -> number of client invocations
    folds,            \* task index -> number of times its result was folded
    file_digests,     \* upload's digest map
    content_details,  \* upload's content-details list
    cas_metrics,      \* upload's CasMetrics.artifacts
    digests_out,      \* cas_digests.json under the output directory
    details_out,      \* logs/cas_content_details.json under the output directory
    heap,             \* the ArtifactConfig objects, by reference
    preset,           \* the dictionary passed to ArtifactManager: name -> reference
    manager_artifacts, \* ArtifactManager._artifacts: name -> reference
    overrides,        \* args.artifacts
    processed,        \* number of overrides override_artifacts has gone through
    mpc,              \* where the call of override_artifacts is
    calls,            \* number of calls of override_artifacts made so far
    first_result,     \* what artifacts() gave after the first call returned
    script,           \* the run of main of the legacy script: its environment
                      \* and arguments, where it is and what it has done
    call              \* a function that is called on its own: its name, its
                      \* arguments, its locals and what it has returned

inputs == <<artifacts, files, client_version, max_works, dryrun>>

resolver == <<globbed, consumed, tasks, skip_files>>

pool == <<status, runs, results, invocations>>

aggregate == <<folds, file_digests, content_details, cas_metrics>>

outputs == <<digests_out, details_out>>

manager == <<heap, preset, manager_artifacts, overrides, processed, mpc, calls, first_result>>

uploader == <<inputs, pc, resolver, scratch, pool, aggregate, outputs>>

vars == <<manager, script, call, uploader>>

NotYet == [done |-> FALSE, found |-> <<>>]

NotWritten == [written |-> FALSE, content |-> <<>>]

Written(content) == [written |-> TRUE, content |-> <<content>>]

TaskIds == 1..Len(tasks)

\* the state at entry of create_upload_tasks
InitResolver ==
    /\ pc = "globbing"
    /\ globbed = [i \in 1..Len(artifacts) |-> NotYet]
    /\ consumed = 0
    /\ tasks = <<>>
    /\ skip_files = <<>>
    /\ scratch = {}

\* the state at entry of upload, before anything was submitted or written
InitUploader ==
    /\ status = <<>>
    /\ runs = <<>>
    /\ results = <<>>
    /\ invocations = <<>>
    /\ folds = <<>>
    /\ file_digests = EmptyMap
    /\ content_details = <<>>
    /\ cas_metrics = <<>>
    /\ digests_out = NotWritten
    /\ details_out = NotWritten

\* no ArtifactManager is in use
InitNoManager ==
    /\ heap = <<>>
    /\ preset = [k \in {} |-> 0]
    /\ manager_artifacts = [k \in {} |-> 0]
    /\ overrides = <<>>
    /\ processed = 0
    /\ mpc = "idle"
    /\ calls = 0
    /\ first_result = EmptyMap

\* a run of main of the legacy script:
\*   environ         the names of the environment variables that are set
\*   client_files    where the script runs from and which client binaries exist
\*   args_list       the --list flag
\*   matched         number of files the globs match
\*   spc             where main is
\*   exit_code       what main returned
\*   probes          number of runs of the client with -version
\*   script_tasks    number of upload tasks created
\*   script_uploads  number of upload runs of the client
ScriptRun(env, where, list, n) ==
    [environ |-> env, client_files |-> where, args_list |-> list, matched |-> n,
     spc |-> "main", exit_code |-> "unset", probes |-> 0, script_tasks |-> 0,
     script_uploads |-> 0]

\* the legacy script is not running
InitNoScript == script = [spc |-> "idle"]

\* no function is called on its own
InitNoCall == call = [fn |-> "none"]

(***************************************************************************)
(* create_upload_tasks.                                                    *)
(***************************************************************************)
\* a worker of the process pool finishes _glob_wrapper for config i
GlobWorker(i) ==
    /\ pc = "globbing"
    /\ ~globbed[i].done
    /\ globbed' = [globbed EXCEPT ![i] =
                      [done |-> TRUE, found |-> GlobWrapper(files, artifacts[i].source_path)]]
    /\ UNCHANGED <<manager, script, call, inputs, pc, consumed, tasks, skip_files, scratch, pool, aggregate, outputs>>

\* mutant: the results are taken from the end of the config list
NextResultLastFirst == Len(artifacts) - consumed

\* the config whose result executor.map yields next: the results come in the
\* order of the config list
NextResult == consumed + 1

\* one iteration of "for files, artifact in results": executor.map yields the
\* results in the order of the config list, waiting for the next one
ResolveConfig ==
    /\ pc = "globbing"
    /\ consumed < Len(artifacts)
    /\ globbed[NextResult].done
    /\ LET acc == AddFiles([tasks |-> tasks, skip_files |-> skip_files], files,
                           globbed[NextResult].found, artifacts[NextResult])
       IN  /\ tasks' = acc.tasks
           /\ skip_files' = acc.skip_files
           /\ scratch' = {acc.tasks[t].metrics_file : t \in 1..Len(acc.tasks)}
    /\ consumed' = consumed + 1
    /\ UNCHANGED <<manager, script, call, inputs, pc, globbed, pool, aggregate, outputs>>

\* create_upload_tasks returns the task list
TasksCreated ==
    /\ pc = "globbing"
    /\ consumed = Len(artifacts)
    /\ pc' = "created"
    /\ UNCHANGED <<manager, script, call, inputs, resolver, scratch, pool, aggregate, outputs>>

(***************************************************************************)
(* upload.                                                                 *)
(***************************************************************************)
\* "if dryrun": print the tasks and return; the working directory is removed
DryRun ==
    /\ pc = "created"
    /\ dryrun
    /\ pc' = "returned"
    /\ scratch' = {}
    /\ UNCHANGED <<manager, script, call, inputs, resolver, pool, aggregate, outputs>>

\* mutant: the dry-run return is missing
SubmitTasksAlways ==
    /\ pc = "created"
    /\ pc' = "folding"
    /\ status' = [t \in 1..Len(tasks) |-> "queued"]
    /\ runs' = [t \in 1..Len(tasks) |-> NoRun]
    /\ results' = [t \in 1..Len(tasks) |-> Pending]
    /\ invocations' = [t \in 1..Len(tasks) |-> 0]
    /\ folds' = [t \in 1..Len(tasks) |-> 0]
    /\ UNCHANGED <<manager, script, call, inputs, resolver, scratch, file_digests, content_details,
                   cas_metrics, outputs>>

\* the thread pool is created and every task is submitted to it
SubmitTasks ==
    /\ pc = "created"
    /\ ~dryrun
    /\ pc' = "folding"
    /\ status' = [t \in TaskIds |-> "queued"]
    /\ runs' = [t \in TaskIds |-> NoRun]
    /\ results' = [t \in TaskIds |-> Pending]
    /\ invocations' = [t \in TaskIds |-> 0]
    /\ folds' = [t \in TaskIds |-> 0]
    /\ UNCHANGED <<manager, script, call, inputs, resolver, scratch, file_digests, content_details,
                   cas_metrics, outputs>>

\* the command line the worker of task t builds: _upload_wrapper hands the
\* task's artifact and metrics file to _upload_artifact
CommandOf(t) == UploaderCommand(tasks[t].artifact, client_version, tasks[t].metrics_file)

Running == {t \in DOMAIN status : status[t] = "running"}

\* mutant: the pool starts a thread for every task
WorkerFreeAlways == TRUE

\* whether the pool has a worker free to take a task
WorkerFree == Cardinality(Running) < max_works

\* a worker thread takes the oldest queued task and invokes the client
StartTask(t) ==
    /\ pc \in {"folding", "raising"}
    /\ status[t] = "queued"
    /\ \A u \in TaskIds : u < t => status[u] # "queued"
    /\ WorkerFree
    /\ status' = [status EXCEPT ![t] = "running"]
    /\ invocations' = [invocations EXCEPT ![t] = @ + 1]
    /\ UNCHANGED <<manager, script, call, inputs, pc, resolver, scratch, runs, results, aggregate, outputs>>

\* mutant: the worker thread itself files the digest it obtained
FinishTaskWritesDigest(t, run) ==
    /\ pc \in {"folding", "raising"}
    /\ status[t] = "running"
    /\ status' = [status EXCEPT ![t] = "done"]
    /\ runs' = [runs EXCEPT ![t] = run]
    /\ results' = [results EXCEPT ![t] = UploadArtifact(run, client_version)]
    /\ file_digests' =
          IF UploadArtifact(run, client_version).kind = "result"
          THEN PutDigest(file_digests, tasks[t].path, UploadArtifact(run, client_version).digest)
          ELSE file_digests
    /\ UNCHANGED <<manager, script, call, inputs, pc, resolver, scratch, invocations,
                   folds, content_details, cas_metrics, outputs>>

\* the client run of task t ends and _upload_wrapper returns or raises
FinishTask(t, run) ==
    /\ pc \in {"folding", "raising"}
    /\ status[t] = "running"
    /\ status' = [status EXCEPT ![t] = "done"]
    /\ runs' = [runs EXCEPT ![t] = run]
    /\ results' = [results EXCEPT ![t] = UploadArtifact(run, client_version)]
    /\ UNCHANGED <<manager, script, call, inputs, pc, resolver, scratch, invocations, aggregate, outputs>>

\* mutant: the metrics file is left in the working directory
KeepMetricsFile(existing, metrics_file) == existing

\* os.remove(task.metrics_file)
RemoveMetricsFile(existing, metrics_file) == existing \ {metrics_file}

\* _add_artifact_metrics: an empty metrics file adds nothing
AddArtifactMetrics(metrics, t) ==
    IF runs[t].metrics = "" THEN metrics
    ELSE Append(metrics, [metrics_file |-> tasks[t].metrics_file, text |-> runs[t].metrics])

\* mutant: the loop takes the futures in the order they were submitted
FoldResultInSubmissionOrder(t) ==
    /\ pc = "folding"
    /\ status[t] = "done"
    /\ \A u \in TaskIds : u < t => status[u] = "folded"
    /\ results[t].kind # "raised"
    /\ status' = [status EXCEPT ![t] = "folded"]
    /\ folds' = [folds EXCEPT ![t] = @ + 1]
    /\ file_digests' =
          IF results[t].kind = "result" /\ results[t].digest # ""
          THEN PutDigest(file_digests, tasks[t].path, results[t].digest)
          ELSE file_digests
    /\ content_details' =
          IF results[t].kind = "result" /\ Truthy(results[t].content_details)
          THEN Append(content_details,
                      [artifact |-> tasks[t].path,
                       details |-> results[t].content_details.items])
          ELSE content_details
    /\ IF tasks[t].metrics_file \in scratch
       THEN /\ cas_metrics' = AddArtifactMetrics(cas_metrics, t)
            /\ scratch' = RemoveMetricsFile(scratch, tasks[t].metrics_file)
       ELSE UNCHANGED <<cas_metrics, scratch>>
    /\ UNCHANGED <<manager, script, call, inputs, pc, resolver, runs, results, invocations, outputs>>

\* one iteration of the as_completed loop for a future that holds a result
FoldResult(t) ==
    /\ pc = "folding"
    /\ status[t] = "done"
    /\ results[t].kind # "raised"
    /\ status' = [status EXCEPT ![t] = "folded"]
    /\ folds' = [folds EXCEPT ![t] = @ + 1]
    /\ file_digests' =
          IF results[t].kind = "result" /\ results[t].digest # ""
          THEN PutDigest(file_digests, tasks[t].path, results[t].digest)
          ELSE file_digests
    /\ content_details' =
          IF results[t].kind = "result" /\ Truthy(results[t].content_details)
          THEN Append(content_details,
                      [artifact |-> tasks[t].path,
                       details |-> results[t].content_details.items])
          ELSE content_details
    /\ IF tasks[t].metrics_file \in scratch
       THEN /\ cas_metrics' = AddArtifactMetrics(cas_metrics, t)
            /\ scratch' = RemoveMetricsFile(scratch, tasks[t].metrics_file)
       ELSE UNCHANGED <<cas_metrics, scratch>>
    /\ UNCHANGED <<manager, script, call, inputs, pc, resolver, runs, results, invocations, outputs>>

\* future.result() re-raises what _upload_wrapper raised: the loop is left
FoldRaises(t) ==
    /\ pc = "folding"
    /\ status[t] = "done"
    /\ results[t].kind = "raised"
    /\ pc' = "raising"
    /\ UNCHANGED <<manager, script, call, inputs, resolver, scratch, pool, aggregate, outputs>>

\* mutant: the loop is left as soon as one result was folded
SomeFolded == \E t \in TaskIds : status[t] = "folded"

\* as_completed has yielded every future
AllFolded == \A t \in TaskIds : status[t] = "folded"

AllFinished == \A t \in TaskIds : status[t] \in {"done", "folded"}

\* the loop ends; the pool is shut down and the working directory removed
ExitPool ==
    /\ pc = "folding"
    /\ AllFolded
    /\ pc' = "output"
    /\ scratch' = {}
    /\ UNCHANGED <<manager, script, call, inputs, resolver, pool, aggregate, outputs>>

\* the manifest _output_results writes to cas_digests.json
DigestsOutput ==
    [cas_instance |-> "INSTANCE", cas_service |-> "SERVICE",
     client_version |-> client_version, files |-> file_digests]

\* mutant: nothing is written when no digest was collected
OutputResultsIfAny ==
    /\ pc = "output"
    /\ IF DOMAIN file_digests = {}
       THEN UNCHANGED outputs
       ELSE /\ digests_out' = Written(DigestsOutput)
            /\ details_out' = Written(content_details)
    /\ pc' = "returned"
    /\ UNCHANGED <<manager, script, call, inputs, resolver, scratch, pool, aggregate>>

\* _output_results, then upload returns cas_metrics
OutputResults ==
    /\ pc = "output"
    /\ digests_out' = Written(DigestsOutput)
    /\ details_out' = Written(content_details)
    /\ pc' = "returned"
    /\ UNCHANGED <<manager, script, call, inputs, resolver, scratch, pool, aggregate>>

\* the exception leaves the with blocks: the pool's shutdown waits for every
\* submitted task, the working directory is removed, upload raises
PropagateError ==
    /\ pc = "raising"
    /\ AllFinished
    /\ pc' = "raised"
    /\ scratch' = {}
    /\ UNCHANGED <<manager, script, call, inputs, resolver, pool, aggregate, outputs>>

(***************************************************************************)
(* ArtifactManager.override_artifacts.                                     *)
(***************************************************************************)
\* the override the loop of override_artifacts is at
CurrentOverride == overrides[processed + 1]

\* one iteration of "for override in args.artifacts" that returns normally
ApplyOverride ==
    /\ mpc = "overriding"
    /\ processed < Len(overrides)
    /\ LET after == ProcessArtifactOverride(heap, manager_artifacts, CurrentOverride)
       IN  /\ ~after.raised
           /\ heap' = after.heap
           /\ manager_artifacts' = after.artifacts
    /\ processed' = processed + 1
    /\ UNCHANGED <<preset, overrides, mpc, calls, first_result, script, call, uploader>>

\* an iteration in which _process_artifact_override raises: the exception
\* leaves override_artifacts
OverrideRaises ==
    /\ mpc = "overriding"
    /\ processed < Len(overrides)
    /\ ProcessArtifactOverride(heap, manager_artifacts, CurrentOverride).raised
    /\ mpc' = "raised"
    /\ UNCHANGED <<heap, preset, manager_artifacts, overrides, processed, calls,
                   first_result, script, call, uploader>>

\* "return self": at once for an empty list, else after the loop
OverridesReturn ==
    /\ mpc = "overriding"
    /\ processed = Len(overrides)
    /\ mpc' = "returned"
    /\ UNCHANGED <<heap, preset, manager_artifacts, overrides, processed, calls,
                   first_result, script, call, uploader>>

\* the caller reads artifacts() and calls override_artifacts again with the
\* same arguments
OverrideAgain ==
    /\ mpc = "returned"
    /\ calls < MaxCalls
    /\ calls' = calls + 1
    /\ first_result' = IF calls = 1
                       THEN [n \in DOMAIN manager_artifacts |-> heap[manager_artifacts[n]]]
                       ELSE first_result
    /\ processed' = 0
    /\ mpc' = "overriding"
    /\ UNCHANGED <<heap, preset, manager_artifacts, overrides, script, call, uploader>>

(***************************************************************************)
(* main of the legacy script (content_uploader_script.py), called without *)
(* --artifacts and --experiment_artifacts.                                 *)
(***************************************************************************)
\* mutant: no environment variable is ever reported as missing
EnvVarNeverMissing(env, key, check) == FALSE

\* _get_env_var raises ValueError: the check is asked for and the variable
\* has no value
EnvVarMissing(env, key, check) == check /\ key \notin env

\* _get_client and _get_prebuilt_client find a binary; if they do not,
\* _get_prebuilt_client raises ValueError
ClientFound(where) ==
    IF where.under_prebuilt THEN where.prebuilt ELSE where.bin \/ where.prebuilt

\* main up to its try block: DIST_DIR is read outside of it, so a ValueError
\* for DIST_DIR leaves main
MainStart ==
    /\ script.spc = "main"
    /\ script' = [script EXCEPT !.spc =
                     IF EnvVarMissing(script.environ, "DIST_DIR", TRUE)
                     THEN "raised" ELSE "try"]
    /\ UNCHANGED <<manager, call, uploader>>

\* "if args.list": the presets are printed and main returns 0
MainList ==
    /\ script.spc = "try"
    /\ script.args_list
    /\ script' = [script EXCEPT !.spc = "returned", !.exit_code = "0"]
    /\ UNCHANGED <<manager, call, uploader>>

\* _init_cas_info up to the client's version: _get_client, then RBE_instance
\* and RBE_service; a ValueError is caught by main, which returns 1
InitCasInfo ==
    /\ script.spc = "try"
    /\ ~script.args_list
    /\ script' = IF \/ ~ClientFound(script.client_files)
                    \/ EnvVarMissing(script.environ, "RBE_instance", TRUE)
                    \/ EnvVarMissing(script.environ, "RBE_service", TRUE)
                 THEN [script EXCEPT !.spc = "returned", !.exit_code = "1"]
                 ELSE [script EXCEPT !.spc = "probing"]
    /\ UNCHANGED <<manager, call, uploader>>

\* _get_client_version: the client is run with -version; no outcome of that
\* run raises
GetClientVersion ==
    /\ script.spc = "probing"
    /\ script' = [script EXCEPT !.probes = @ + 1, !.spc = "populating"]
    /\ UNCHANGED <<manager, call, uploader>>

\* _upload_all_artifacts, "Populate upload tasks": one more task
PopulateTask ==
    /\ script.spc = "populating"
    /\ script.script_tasks < script.matched
    /\ script' = [script EXCEPT !.script_tasks = @ + 1]
    /\ UNCHANGED <<manager, call, uploader>>

\* the end of the populating loop: a dry run prints the tasks and main ends
\* without a return value
Populated ==
    /\ script.spc = "populating"
    /\ script.script_tasks = script.matched
    /\ script' = IF dryrun
                 THEN [script EXCEPT !.spc = "returned", !.exit_code = "None"]
                 ELSE [script EXCEPT !.spc = "uploading"]
    /\ UNCHANGED <<manager, call, uploader>>

\* a worker of the pool runs the client for one task
ScriptUpload ==
    /\ script.spc = "uploading"
    /\ script.script_uploads < script.script_tasks
    /\ script' = [script EXCEPT !.script_uploads = @ + 1]
    /\ UNCHANGED <<manager, call, uploader>>

\* every task was run: the results are written and main ends without a
\* return value
ScriptDone ==
    /\ script.spc = "uploading"
    /\ script.script_uploads = script.script_tasks
    /\ script' = [script EXCEPT !.spc = "returned", !.exit_code = "None"]
    /\ UNCHANGED <<manager, call, uploader>>

(***************************************************************************)
(* Specifications.                                                         *)
(***************************************************************************)
\* create_upload_tasks called on its own
InitTasks ==
    /\ artifacts \in SeqsUpTo(ConfigUniverse, MaxConfigs)
    /\ files \in FileSystems
    /\ client_version = <<1, 3>>
    /\ max_works = 1
    /\ dryrun = TRUE
    /\ InitResolver
    /\ InitUploader
    /\ InitNoScript
    /\ InitNoCall
    /\ InitNoManager

NextTasks ==
    \/ \E i \in 1..Len(artifacts) : GlobWorker(i)
    \/ ResolveConfig
    \/ TasksCreated

SpecTasks == InitTasks /\ [][NextTasks]_vars

\* the configs and output directories upload is run on
UploadConfigs ==
    {ArtifactConfig(<<"a", ".zip">>, FALSE, TRUE, FALSE, FALSE, <<>>),
     ArtifactConfig(<<"./", "*", ".zip">>, TRUE, FALSE, TRUE, FALSE, <<"f">>)}

UploadFileSystems ==
    {<<[path |-> <<"a", ".zip">>, isdir |-> FALSE]>>,
     <<[path |-> <<"a", ".zip">>, isdir |-> FALSE],
       [path |-> <<"sub", "/", "a", ".zip">>, isdir |-> FALSE]>>}

Init ==
    /\ artifacts \in SeqsUpTo(UploadConfigs, MaxUploadConfigs)
    /\ files \in UploadFileSystems
    /\ client_version \in Versions
    /\ max_works \in 1..MaxWorks
    /\ dryrun \in BOOLEAN
    /\ InitResolver
    /\ InitUploader
    /\ InitNoScript
    /\ InitNoCall
    /\ InitNoManager

Next ==
    \/ \E i \in 1..Len(artifacts) : GlobWorker(i)
    \/ ResolveConfig
    \/ TasksCreated
    \/ DryRun
    \/ SubmitTasks
    \/ \E t \in TaskIds : StartTask(t)
    \/ \E t \in TaskIds : \E run \in RunsFor(client_version) : FinishTask(t, run)
    \/ \E t \in TaskIds : FoldResult(t)
    \/ \E t \in TaskIds : FoldRaises(t)
    \/ ExitPool
    \/ OutputResults
    \/ PropagateError

Spec == Init /\ [][Next]_vars

\* upload with a client that takes every optional flag
InitFair ==
    /\ artifacts \in SeqsUpTo(UploadConfigs, MaxUploadConfigs)
    /\ files \in UploadFileSystems
    /\ client_version = <<1, 3>>
    /\ max_works \in 1..MaxWorks
    /\ dryrun \in BOOLEAN
    /\ InitResolver
    /\ InitUploader
    /\ InitNoScript
    /\ InitNoCall
    /\ InitNoManager

\* the calling thread and the pool's threads keep running, and every client
\* run that was started ends (subprocess.run is given a timeout)
FairSpec == InitFair /\ [][Next]_vars /\ WF_vars(Next)

\* glob patterns a single config is given: a name and a wildcard, each
\* searched at any depth and anchored at the output directory
ConfigPatterns ==
    {<<"a", ".zip">>, <<"./", "a", ".zip">>, <<"*", ".zip">>, <<"./", "*", ".zip">>}

\* every setting of the three mode flags, for both flavours and every pattern
AnyConfigs ==
    {ArtifactConfig(p, v.unzip, std, chunk, chunk_dir, v.exclude_filters) :
        p \in ConfigPatterns, v \in Flavours,
        std \in BOOLEAN, chunk \in BOOLEAN, chunk_dir \in BOOLEAN}

\* upload of one config of any shape
InitConfig ==
    /\ artifacts \in {<<c>> : c \in AnyConfigs}
    /\ files \in FileSystems
    /\ client_version \in CommandVersions
    /\ max_works = MaxWorks
    /\ dryrun = FALSE
    /\ InitResolver
    /\ InitUploader
    /\ InitNoScript
    /\ InitNoCall
    /\ InitNoManager

\* upload up to the point where the pool's workers have launched the client
NextConfig ==
    \/ \E i \in 1..Len(artifacts) : GlobWorker(i)
    \/ ResolveConfig
    \/ TasksCreated
    \/ SubmitTasks
    \/ \E t \in TaskIds : StartTask(t)

SpecConfig == InitConfig /\ [][NextConfig]_vars

\* ArtifactManager(preset).override_artifacts(args): the constructor copies
\* the dictionary, not the objects; no upload is going on
InitManager ==
    /\ heap = PresetObjects
    /\ preset = PresetArtifacts
    /\ manager_artifacts = PresetArtifacts
    /\ overrides \in SeqsUpTo(OverrideStrings, MaxOverrides)
    /\ processed = 0
    /\ mpc = "overriding"
    /\ calls = 1
    /\ first_result = EmptyMap
    /\ artifacts = <<>>
    /\ files = <<>>
    /\ client_version = <<1, 3>>
    /\ max_works = 1
    /\ dryrun = FALSE
    /\ pc = "idle"
    /\ globbed = <<>>
    /\ consumed = 0
    /\ tasks = <<>>
    /\ skip_files = <<>>
    /\ scratch = {}
    /\ InitUploader
    /\ InitNoScript
    /\ InitNoCall

NextManager ==
    \/ ApplyOverride
    \/ OverrideRaises
    \/ OverridesReturn
    \/ OverrideAgain

SpecManager == InitManager /\ [][NextManager]_vars

\* override_artifacts called with one override of the form
\* 'name=source_path attributes', alone or after one other override string
InitAttributes ==
    /\ heap = PresetObjects
    /\ preset = PresetArtifacts
    /\ manager_artifacts = PresetArtifacts
    /\ overrides \in {<<ComposeOverride(d)>> : d \in OverrideDescriptions}
                    \cup {<<o, ComposeOverride(d)>> :
                             o \in OverrideStrings, d \in OverrideDescriptions}
    /\ processed = 0
    /\ mpc = "overriding"
    /\ calls = 1
    /\ first_result = EmptyMap
    /\ artifacts = <<>>
    /\ files = <<>>
    /\ client_version = <<1, 3>>
    /\ max_works = 1
    /\ dryrun = FALSE
    /\ pc = "idle"
    /\ globbed = <<>>
    /\ consumed = 0
    /\ tasks = <<>>
    /\ skip_files = <<>>
    /\ scratch = {}
    /\ InitUploader
    /\ InitNoScript
    /\ InitNoCall

SpecAttributes == InitAttributes /\ [][NextManager]_vars

\* ArtifactManager(ARTIFACTS).override_artifacts(args): a manager that is
\* given the preset table
InitPresets ==
    /\ heap = ArtifactsObjects
    /\ preset = ArtifactsRefs
    /\ manager_artifacts = ArtifactsRefs
    /\ overrides \in SeqsUpTo(OverrideStrings, MaxOverrides)
    /\ processed = 0
    /\ mpc = "overriding"
    /\ calls = 1
    /\ first_result = EmptyMap
    /\ artifacts = <<>>
    /\ files = <<>>
    /\ client_version = <<1, 3>>
    /\ max_works = 1
    /\ dryrun = FALSE
    /\ pc = "idle"
    /\ globbed = <<>>
    /\ consumed = 0
    /\ tasks = <<>>
    /\ skip_files = <<>>
    /\ scratch = {}
    /\ InitUploader
    /\ InitNoScript
    /\ InitNoCall

SpecPresets == InitPresets /\ [][NextManager]_vars

\* main of the legacy script in any environment
InitMain ==
    /\ script \in {ScriptRun(env, where, list, n) :
                       env \in SUBSET {"DIST_DIR", "RBE_instance", "RBE_service"},
                       where \in [under_prebuilt : BOOLEAN, bin : BOOLEAN, prebuilt : BOOLEAN],
                       list \in BOOLEAN,
                       n \in 0..MaxMatched}
    /\ artifacts = <<>>
    /\ files = <<>>
    /\ client_version = <<1, 3>>
    /\ max_works = 1
    /\ dryrun \in BOOLEAN
    /\ InitNoCall
    /\ pc = "idle"
    /\ globbed = <<>>
    /\ consumed = 0
    /\ tasks = <<>>
    /\ skip_files = <<>>
    /\ scratch = {}
    /\ status = <<>>
    /\ runs = <<>>
    /\ results = <<>>
    /\ invocations = <<>>
    /\ folds = <<>>
    /\ file_digests = EmptyMap
    /\ content_details = <<>>
    /\ cas_metrics = <<>>
    /\ digests_out = NotWritten
    /\ details_out = NotWritten
    /\ InitNoManager

NextMain ==
    \/ MainStart
    \/ MainList
    \/ InitCasInfo
    \/ GetClientVersion
    \/ PopulateTask
    \/ Populated
    \/ ScriptUpload
    \/ ScriptDone

SpecMain == InitMain /\ [][NextMain]_vars

(***************************************************************************)
(* Functions called on their own.                                          *)
(***************************************************************************)
\* ArtifactConfig of the legacy script
ScriptArtifactConfig(path, unzip, chunk, chunk_fallback, filters) ==
    [source_path |-> path, unzip |-> unzip, chunk |-> chunk,
     chunk_fallback |-> chunk_fallback, exclude_filters |-> filters]

\* the directory tempfile.mkdtemp makes under the working directory
TmpDir == <<"working_dir", "/", "tmp_dir">>

\* what a path function gives: the two arguments for the command line and the
\* files it has copied, each with the directory it was copied into
PathResult(flags, copied) == [flags |-> flags, copied |-> copied]

\* _path_for_artifact of the legacy script
PathForArtifact(artifact) ==
    IF artifact.unzip THEN PathResult(<<<<"-zip-path">>, artifact.source_path>>, {})
    ELSE IF artifact.chunk THEN PathResult(<<<<"-file-path">>, artifact.source_path>>, {})
    ELSE PathResult(<<<<"-dir-path">>, TmpDir>>,
                    {[dir |-> TmpDir, name |-> BaseName(artifact.source_path)]})

\* a call of a function with one argument that has not returned yet
CallOf(fn, arg) == [fn |-> fn, arg |-> arg, returned |-> FALSE]

\* the artifacts the legacy script's path function is called with
ScriptConfigs ==
    {ScriptArtifactConfig(p, unzip, chunk, fallback, <<>>) :
        p \in ConfigPatterns, unzip \in BOOLEAN, chunk \in BOOLEAN, fallback \in BOOLEAN}

\* Uploader._path_flag_for_artifact returns; it copies nothing
PathFlagReturns ==
    /\ call.fn = "_path_flag_for_artifact"
    /\ ~call.returned
    /\ call' = [fn |-> call.fn, arg |-> call.arg, returned |-> TRUE,
                result |-> PathResult(PathFlagForArtifact(call.arg), {})]
    /\ UNCHANGED <<manager, script, uploader>>

\* _path_for_artifact of the legacy script returns
PathForReturns ==
    /\ call.fn = "_path_for_artifact"
    /\ ~call.returned
    /\ call' = [fn |-> call.fn, arg |-> call.arg, returned |-> TRUE,
                result |-> PathForArtifact(call.arg)]
    /\ UNCHANGED <<manager, script, uploader>>

RECURSIVE GetArtifactProperty(_, _, _)
\* _get_artifact_property of the legacy script: the first value that names
\* the property decides; it is true when bare or followed by a spelling of
\* true, false otherwise
GetArtifactProperty(values, property, default) ==
    IF values = <<>> THEN default
    ELSE LET value == Head(values)
             tokens == SplitOnce(value)
         IN  IF StartsWith(value, property) /\ tokens[1] = property
             THEN Len(tokens) = 1 \/ tokens[2] \in {<<"T">>, <<"t">>, <<"True">>, <<"true">>}
             ELSE GetArtifactProperty(Tail(values), property, default)

\* what one iteration of the loop of _override_artifacts leaves: the
\* dictionary and how the iteration ends ("next", "return" or "raise")
Iteration(dict, ends) == [ARTIFACTS |-> dict, ends |-> ends]

\* the body of "for override in args.artifacts" of _override_artifacts: an
\* override without "=" is skipped, "name=" deletes and returns from the
\* function, values[0] of a blank value raises IndexError, anything else
\* updates or adds the artifact
OverrideArtifact(dict, override) ==
    LET tokens == SplitOnce(override)
    IN  IF Len(tokens) = 1 THEN Iteration(dict, "next")
        ELSE IF tokens[2] = <<>>
             THEN Iteration(DeleteArtifact(dict, tokens[1]), "return")
             ELSE LET values == SplitWhitespace(tokens[2])
                  IN  IF values = <<>> THEN Iteration(dict, "raise")
                      ELSE LET name == tokens[1]
                               artifact ==
                                  IF name \in DOMAIN dict
                                  THEN [dict[name] EXCEPT !.source_path = values[1]]
                                  ELSE ScriptArtifactConfig(values[1], FALSE, FALSE, FALSE, <<>>)
                               updated ==
                                  IF Len(values) > 1
                                  THEN [artifact EXCEPT
                                          !.unzip = GetArtifactProperty(Tail(values), <<"unzip">>,
                                                                        artifact.unzip),
                                          !.chunk = GetArtifactProperty(Tail(values), <<"chunk">>,
                                                                        artifact.chunk),
                                          !.chunk_fallback =
                                              GetArtifactProperty(Tail(values),
                                                                  <<"chunk", "_fallback">>,
                                                                  artifact.chunk_fallback)]
                                  ELSE artifact
                           IN  Iteration(PutEntry(dict, name, updated), "next")

\* two entries of the dictionary ARTIFACTS of the legacy script
ScriptArtifacts ==
    [k \in {<<"apex">>, <<"img">>} |->
        IF k = <<"apex">>
        THEN ScriptArtifactConfig(<<"*", ".apex">>, FALSE, FALSE, FALSE, <<>>)
        ELSE ScriptArtifactConfig(<<"*", "-img-", "*", "zip">>, TRUE, TRUE, TRUE, <<>>)]

\* the --artifacts arguments the legacy script is given
ScriptOverrideStrings ==
    {<<"invalid">>,
     <<"img", "=">>,
     <<"new", "=">>,
     <<"apex", "=", " ">>,
     <<"apex", "=", "p">>,
     <<"new", "=", "p">>,
     <<"apex", "=", "p", " ", "unzip", " ", "chunk", "=", "True">>,
     <<"img", "=", "q", " ", "chunk", "_fallback", "=", "F">>}

\* _override_artifacts(args) at entry
OverrideArtifactsCall(args) ==
    [fn |-> "_override_artifacts", ARTIFACTS |-> ScriptArtifacts, args |-> args,
     processed |-> 0, returned |-> FALSE, raised |-> FALSE]

\* what the iteration for the next override of the list leaves
NextIteration == OverrideArtifact(call.ARTIFACTS, call.args[call.processed + 1])

\* _override_artifacts is in its loop and has an override left
InOverrideLoop ==
    /\ call.fn = "_override_artifacts"
    /\ ~call.returned /\ ~call.raised
    /\ call.processed < Len(call.args)

\* an iteration that ends at the bottom of the loop body or with continue
ScriptOverrideNext ==
    /\ InOverrideLoop
    /\ NextIteration.ends = "next"
    /\ call' = [call EXCEPT !.ARTIFACTS = NextIteration.ARTIFACTS,
                             !.processed = @ + 1]
    /\ UNCHANGED <<manager, script, uploader>>

\* an iteration that ends with the return statement of the delete branch
ScriptOverrideReturn ==
    /\ InOverrideLoop
    /\ NextIteration.ends = "return"
    /\ call' = [call EXCEPT !.ARTIFACTS = NextIteration.ARTIFACTS,
                             !.processed = @ + 1,
                             !.returned = TRUE]
    /\ UNCHANGED <<manager, script, uploader>>

\* an iteration in which values[0] raises IndexError
ScriptOverrideRaise ==
    /\ InOverrideLoop
    /\ NextIteration.ends = "raise"
    /\ call' = [call EXCEPT !.raised = TRUE]
    /\ UNCHANGED <<manager, script, uploader>>

\* the list is exhausted and _override_artifacts returns
ScriptOverridesEnd ==
    /\ call.fn = "_override_artifacts"
    /\ ~call.returned /\ ~call.raised
    /\ call.processed = Len(call.args)
    /\ call' = [call EXCEPT !.returned = TRUE]
    /\ UNCHANGED <<manager, script, uploader>>

\* copy.copy(artifact) with unzip cleared for an unzip artifact and chunk
\* cleared for any other
FallbackArtifact(artifact) ==
    IF artifact.unzip THEN [artifact EXCEPT !.unzip = FALSE]
    ELSE [artifact EXCEPT !.chunk = FALSE]

\* _add_fallback_artifacts(artifacts) at entry; given keeps the list as it
\* was passed, visited counts the elements the for loop has taken
AddFallbackArtifactsCall(list) ==
    [fn |-> "_add_fallback_artifacts", given |-> list, artifacts |-> list,
     visited |-> 0, returned |-> FALSE]

\* the artifacts _add_fallback_artifacts is called with
FallbackConfigs ==
    {ScriptArtifactConfig(<<"f">>, unzip, chunk, fallback, <<>>) :
        unzip \in BOOLEAN, chunk \in BOOLEAN, fallback \in BOOLEAN}

\* one iteration of "for artifact in artifacts": the loop takes the next
\* element of the list as it is now, elements appended on the way included
FallbackVisit ==
    /\ call.fn = "_add_fallback_artifacts"
    /\ ~call.returned
    /\ call.visited < Len(call.artifacts)
    /\ LET artifact == call.artifacts[call.visited + 1]
       IN  call' = [call EXCEPT
                      !.artifacts = IF artifact.chunk /\ artifact.chunk_fallback
                                    THEN Append(@, FallbackArtifact(artifact))
                                    ELSE @,
                      !.visited = @ + 1]
    /\ UNCHANGED <<manager, script, uploader>>

\* the loop has taken the last element of the list
FallbackReturns ==
    /\ call.fn = "_add_fallback_artifacts"
    /\ ~call.returned
    /\ call.visited = Len(call.artifacts)
    /\ call' = [call EXCEPT !.returned = TRUE]
    /\ UNCHANGED <<manager, script, uploader>>

\* no upload is going on
InitNoUpload ==
    /\ artifacts = <<>>
    /\ files = <<>>
    /\ client_version = <<1, 3>>
    /\ max_works = 1
    /\ dryrun = FALSE
    /\ pc = "idle"
    /\ globbed = <<>>
    /\ consumed = 0
    /\ tasks = <<>>
    /\ skip_files = <<>>
    /\ scratch = {}
    /\ InitUploader

\* either path function called with an artifact of any shape
InitPathFlag ==
    /\ call \in {CallOf("_path_flag_for_artifact", c) : c \in AnyConfigs}
                \cup {CallOf("_path_for_artifact", c) : c \in ScriptConfigs}
    /\ InitNoUpload
    /\ InitNoScript
    /\ InitNoManager

NextPathFlag ==
    \/ PathFlagReturns
    \/ PathForReturns

SpecPathFlag == InitPathFlag /\ [][NextPathFlag]_vars

\* _override_artifacts of the legacy script called with any argument list
InitScriptOverrides ==
    /\ call \in {OverrideArtifactsCall(args) :
                    args \in SeqsUpTo(ScriptOverrideStrings, MaxOverrides)}
    /\ InitNoUpload
    /\ InitNoScript
    /\ InitNoManager

NextScriptOverrides ==
    \/ ScriptOverrideNext
    \/ ScriptOverrideReturn
    \/ ScriptOverrideRaise
    \/ ScriptOverridesEnd

SpecScriptOverrides == InitScriptOverrides /\ [][NextScriptOverrides]_vars

\* _add_fallback_artifacts of the legacy script called with any list
InitFallbacks ==
    /\ call \in {AddFallbackArtifactsCall(list) :
                    list \in SeqsUpTo(FallbackConfigs, MaxScriptArtifacts)}
    /\ InitNoUpload
    /\ InitNoScript
    /\ InitNoManager

NextFallbacks ==
    \/ FallbackVisit
    \/ FallbackReturns

SpecFallbacks == InitFallbacks /\ [][NextFallbacks]_vars

(***************************************************************************)
(* Properties of create_upload_tasks.                                      *)
(***************************************************************************)
ConfigIds == 1..Len(artifacts)

\* the (key, task artifact) pairs config i asks for: one per regular file its
\* pattern matches and variation of that file
Candidates(i) ==
    UNION {
        {[key |-> ArtifactPath(GetRelativePath(DistDir, f), v),
          artifact |-> [v EXCEPT !.source_path = f]] :
            v \in Range(ArtifactVariations(GetRelativePath(DistDir, f), artifacts[i]))} :
        f \in {x \in Range(GlobWrapper(files, artifacts[i].source_path)) : ~IsDir(files, x)}}

\* AllCandidates[i] = Candidates(i)
AllCandidates == [i \in ConfigIds |-> Candidates(i)]

\* the first config of the list that asks for key, given cand = AllCandidates
FirstProducer(cand, key) ==
    CHOOSE i \in ConfigIds :
        /\ \E c \in cand[i] : c.key = key
        /\ \A j \in 1..(i - 1) : \A c \in cand[j] : c.key # key

TasksWithKey(key) == {t \in TaskIds : tasks[t].path = key}

\* C1: the task list of create_upload_tasks never holds two tasks with the
\* same target key
C1_NoDuplicateKeys ==
    \A t, u \in TaskIds : tasks[t].path = tasks[u].path => t = u

\* create_upload_tasks has returned tasks although two configs of the list
\* asked for the same key
C1_Witness ==
    /\ pc = "created"
    /\ tasks # <<>>
    /\ \E i, j \in ConfigIds :
          /\ i < j
          /\ \E c \in Candidates(i), d \in Candidates(j) : c.key = d.key

\* C2: when create_upload_tasks has returned, every key some config asked for
\* has exactly one task, and that task carries an artifact (unzip flag and
\* exclude_filters included) that the earliest config asking for the key built
C2_FirstConfigWins ==
    pc = "created" =>
        LET cand == AllCandidates
        IN  \A i \in ConfigIds : \A c \in cand[i] :
                /\ Cardinality(TasksWithKey(c.key)) = 1
                /\ \A t \in TasksWithKey(c.key) :
                      \E d \in cand[FirstProducer(cand, c.key)] :
                          d.key = c.key /\ d.artifact = tasks[t].artifact

\* two configs ask for the same key with different unzip and exclude_filters,
\* and the task of that key carries those of the earlier config
C2_Witness ==
    /\ pc = "created"
    /\ LET cand == AllCandidates
       IN  \E i, j \in ConfigIds :
              /\ i < j
              /\ \E c \in cand[i], d \in cand[j] :
                    /\ c.key = d.key
                    /\ FirstProducer(cand, c.key) = i
                    /\ c.artifact.unzip # d.artifact.unzip
                    /\ c.artifact.exclude_filters # d.artifact.exclude_filters
                    /\ \E t \in TaskIds :
                          tasks[t].path = c.key /\ tasks[t].artifact = c.artifact

RECURSIVE ResolvedInListOrder(_)
\* the tasks and keys obtained from the first k configs of the list, taken
\* one after another in list order, each with all the files its pattern
\* matches
ResolvedInListOrder(k) ==
    IF k = 0 THEN [tasks |-> <<>>, skip_files |-> <<>>]
    ELSE AddFiles(ResolvedInListOrder(k - 1), files,
                  GlobWrapper(files, artifacts[k].source_path), artifacts[k])

\* C30: the task list does not depend on the order in which the glob workers
\* finish: whichever workers are done, the tasks made so far are those of the
\* first configs of the list in list order, and the list that is returned is
\* the one for the whole config list
C30_ListOrderDecides ==
    /\ consumed \in 0..Len(artifacts)
    /\ tasks = ResolvedInListOrder(consumed).tasks
    /\ skip_files = ResolvedInListOrder(consumed).skip_files
    /\ pc = "created" => consumed = Len(artifacts)

\* the worker of the second config has finished before the worker of the
\* first, the two configs ask for the same key with different artifacts, and
\* no task was made from the result that came first
C30_Witness ==
    /\ pc = "globbing"
    /\ Len(artifacts) = 2
    /\ globbed[2].done
    /\ ~globbed[1].done
    /\ globbed[2].found # <<>>
    /\ tasks = <<>>
    /\ \E c \in Candidates(1), d \in Candidates(2) :
          c.key = d.key /\ c.artifact # d.artifact

(***************************************************************************)
(* Properties of upload.                                                   *)
(***************************************************************************)
\* upload has returned or raised
Terminated == pc \in {"returned", "raised"}

\* the task's future holds an UploadResult with a digest
Succeeded(t) == results[t].kind = "result" /\ results[t].digest # ""

\* the client run of the task has ended in a failure
ClientFailed(t) == runs[t].kind \in {"exit_nonzero", "timeout", "subprocess_error", "os_error"}

BothWritten == digests_out.written /\ details_out.written

\* the 'files' map of the manifest that was written
ManifestFiles == digests_out.content[1].files

\* C3: in a non-dry-run upload where the client invocation of a task fails,
\* upload does not raise: it returns with every task folded and both output
\* files written
C3_FailureContained ==
    (~dryrun /\ Terminated /\ \E t \in DOMAIN runs : ClientFailed(t)) =>
        /\ pc = "returned"
        /\ AllFolded
        /\ BothWritten

\* C4: when a non-dry-run upload has returned, the manifest maps key k to d
\* exactly when the task with key k produced a result with non-empty digest d
C4_ManifestMatchesResults ==
    (pc = "returned" /\ ~dryrun) =>
        /\ digests_out.written
        /\ \A k \in DOMAIN ManifestFiles :
              \E t \in TaskIds :
                  tasks[t].path = k /\ Succeeded(t) /\ results[t].digest = ManifestFiles[k]
        /\ \A t \in TaskIds :
              Succeeded(t) =>
                  /\ tasks[t].path \in DOMAIN ManifestFiles
                  /\ ManifestFiles[tasks[t].path] = results[t].digest

\* upload has returned after one task succeeded and another failed
C4_Witness ==
    /\ pc = "returned"
    /\ ~dryrun
    /\ \E t, u \in TaskIds : Succeeded(t) /\ results[u].kind = "none"

RECURSIVE DigestsInOrder(_, _)
\* the digest map obtained by folding the results of tasks n+1.. in the order
\* the tasks were submitted
DigestsInOrder(n, acc) ==
    IF n >= Len(tasks) THEN acc
    ELSE DigestsInOrder(n + 1,
            IF Succeeded(n + 1)
            THEN PutDigest(acc, tasks[n + 1].path, results[n + 1].digest)
            ELSE acc)

\* C5: whatever the order in which the uploads completed and were folded, the
\* manifest written is the one that folding in submission order gives, and a
\* run in which a task raised writes none
C5_OrderIndependent ==
    /\ (pc = "returned" /\ ~dryrun) =>
          digests_out.written /\ ManifestFiles = DigestsInOrder(0, EmptyMap)
    /\ pc = "raised" => ~digests_out.written

\* upload has returned after folding a later task before an earlier one, the
\* two with different digests
C5_Witness ==
    /\ pc = "returned"
    /\ Len(content_details) >= 2
    /\ \E t, u \in TaskIds :
          /\ t < u
          /\ content_details[1].artifact = tasks[u].path
          /\ content_details[2].artifact = tasks[t].path
          /\ results[t].digest # results[u].digest

\* C6: the number of tasks whose client invocation is in progress never
\* exceeds max_works
C6_BoundedWorkers == Cardinality(Running) <= max_works

\* every worker is busy while a submitted task waits
C6_Witness ==
    /\ Cardinality(Running) = max_works
    /\ \E t \in TaskIds : status[t] = "queued"

\* C7: when a non-dry-run upload ends, every task was invoked exactly once and
\* its result was folded exactly once
C7_ExactlyOnce ==
    (~dryrun /\ Terminated) =>
        \A t \in TaskIds : invocations[t] = 1 /\ folds[t] = 1

\* the client run of every task so far ended by exiting or by the timeout
EndedByExitOrTimeout ==
    \A t \in DOMAIN runs : runs[t].kind \in {"none", "exit_zero", "exit_nonzero", "timeout"}

\* C8: a non-dry-run upload in which every client run ends by exiting or by
\* the timeout eventually returns, with every task folded
C8_EventuallyReturns ==
    <>(\/ dryrun
       \/ ~EndedByExitOrTimeout
       \/ (pc = "returned" /\ AllFolded /\ BothWritten))

\* upload has returned although a client run timed out
C8_Witness ==
    /\ pc = "returned"
    /\ ~dryrun
    /\ EndedByExitOrTimeout
    /\ \E t \in TaskIds : runs[t].kind = "timeout"
    /\ \E t \in TaskIds : Succeeded(t)

\* C9: in a dry run no client is invoked, nothing is submitted, no output
\* file is written and the metrics returned are empty
C9_DryRunNoEffects ==
    dryrun =>
        /\ \A t \in DOMAIN invocations : invocations[t] = 0
        /\ Running = {}
        /\ ~digests_out.written
        /\ ~details_out.written
        /\ cas_metrics = <<>>
        /\ pc # "raised"

\* a dry run over a non-empty task list has returned
C9_Witness == dryrun /\ pc = "returned" /\ tasks # <<>>

\* C10: a non-dry-run upload that has returned has written both files; when
\* no task succeeded the 'files' map is empty and the details list is empty
C10_OutputsAlwaysWritten ==
    (pc = "returned" /\ ~dryrun) =>
        /\ BothWritten
        /\ (\A t \in TaskIds : ~Succeeded(t)) =>
              /\ ManifestFiles = EmptyMap
              /\ details_out.content[1] = <<>>

\* upload has returned after every one of its tasks failed
C10_Witness ==
    /\ pc = "returned"
    /\ ~dryrun
    /\ tasks # <<>>
    /\ \A t \in TaskIds : results[t].kind = "none"

\* the entries of the content-details list written for key
DetailsEntries(key) ==
    {i \in 1..Len(details_out.content[1]) : details_out.content[1][i].artifact = key}

\* the client of task t exited with code 0 and left the digest file empty
EmptyDigestRun(t) == runs[t].kind = "exit_zero" /\ runs[t].digest = ""

\* C11: a task whose client exits with code 0 but dumps no digest has the
\* result None; in the files upload writes its key is absent from the
\* manifest and has no content-details entry
C11_EmptyDigestIsFailure ==
    \A t \in DOMAIN runs :
        EmptyDigestRun(t) =>
            /\ results[t] = None
            /\ pc = "returned" =>
                  /\ tasks[t].path \notin DOMAIN ManifestFiles
                  /\ DetailsEntries(tasks[t].path) = {}

\* upload has returned after a client exited with code 0, wrote file details
\* and dumped no digest, while another task succeeded
C11_Witness ==
    /\ pc = "returned"
    /\ ~dryrun
    /\ \E t, u \in TaskIds :
          /\ EmptyDigestRun(t)
          /\ runs[t].details = "[rec]"
          /\ Succeeded(u)

\* the client of task t exited with code 0 and dumped a digest, and the file
\* details it was asked for are not JSON
UnparsableDetailsRun(t) ==
    /\ runs[t].kind = "exit_zero"
    /\ runs[t].digest # ""
    /\ client_version[1] >= 1
    /\ runs[t].details \notin {"[rec]", "[]"}

\* C12: a task whose client succeeds with a digest but whose file details do
\* not parse still succeeds: its content_details is None, and in the files
\* upload writes its digest stands under its key and it has no
\* content-details entry
C12_UnparsableDetailsTolerated ==
    \A t \in DOMAIN runs :
        UnparsableDetailsRun(t) =>
            /\ results[t].kind = "result"
            /\ results[t].digest = runs[t].digest
            /\ results[t].content_details.none
            /\ pc = "returned" =>
                  /\ tasks[t].path \in DOMAIN ManifestFiles
                  /\ ManifestFiles[tasks[t].path] = runs[t].digest
                  /\ DetailsEntries(tasks[t].path) = {}

\* upload has returned after a client dumped a digest and file details that
\* are not JSON, while the details of another task were recorded
C12_Witness ==
    /\ pc = "returned"
    /\ ~dryrun
    /\ \E t, u \in TaskIds :
          /\ UnparsableDetailsRun(t)
          /\ runs[t].details = "garbage"
          /\ DetailsEntries(tasks[u].path) # {}

\* C13: in a non-dry-run upload the metrics file of a task whose result has
\* been folded no longer exists, whatever the result was, and no metrics file
\* exists once upload has returned
C13_MetricsFileRemoved ==
    ~dryrun =>
        /\ \A t \in DOMAIN status :
              status[t] = "folded" => tasks[t].metrics_file \notin scratch
        /\ pc = "returned" => scratch = {}

\* a failed task and a succeeded task have been folded while the metrics file
\* of a third task, not yet folded, still exists
C13_Witness ==
    /\ ~dryrun
    /\ pc = "folding"
    /\ \E t, u, w \in TaskIds :
          /\ status[t] = "folded" /\ results[t].kind = "none"
          /\ status[u] = "folded" /\ Succeeded(u)
          /\ status[w] # "folded" /\ tasks[w].metrics_file \in scratch

(***************************************************************************)
(* Properties of variations, target keys, command lines and globbing.      *)
(***************************************************************************)
Modes == {"standard", "chunk", "chunk_dir"}

\* the mode flags that are set in an ArtifactConfig
TrueModes(c) == {m \in Modes : c[m]}

\* the unzip flag the variation of a mode is to carry
ExpectedUnzip(m, c) == IF m = "standard" THEN c.unzip ELSE m = "chunk_dir"

\* the regular files under the output directory
RegularFiles == {e \in Range(files) : ~e.isdir}

\* C14: for every config and file, _artifact_variations returns one variation
\* per mode flag that is set, each with exactly its own flag set, the
\* exclude_filters of the config and unzip as the mode prescribes (the
\* config's for standard, false for chunk, true for chunk_dir); a config with
\* no mode flag set yields no task
C14_VariationsPerFlag ==
    /\ \A i \in ConfigIds : \A e \in Range(files) :
          LET c == artifacts[i]
              vs == ArtifactVariations(e.path, c)
          IN  /\ Len(vs) = Cardinality(TrueModes(c))
              /\ \A m \in TrueModes(c) : \E k \in 1..Len(vs) : TrueModes(vs[k]) = {m}
              /\ \A k \in 1..Len(vs) :
                    /\ Cardinality(TrueModes(vs[k])) = 1
                    /\ TrueModes(vs[k]) \subseteq TrueModes(c)
                    /\ vs[k].exclude_filters = c.exclude_filters
                    /\ \A m \in TrueModes(vs[k]) : vs[k].unzip = ExpectedUnzip(m, c)
    /\ (\A i \in ConfigIds : TrueModes(artifacts[i]) = {}) => tasks = <<>>

\* a config with all three modes and unzip off was resolved into a standard,
\* a chunk and a chunk_dir task that carry its exclude_filters
C14_Witness ==
    /\ pc = "created"
    /\ TrueModes(artifacts[1]) = Modes
    /\ ~artifacts[1].unzip
    /\ \E t, u, w \in TaskIds :
          /\ tasks[t].artifact.standard /\ ~tasks[t].artifact.unzip
          /\ tasks[u].artifact.chunk /\ ~tasks[u].artifact.unzip
          /\ tasks[w].artifact.chunk_dir /\ tasks[w].artifact.unzip
          /\ tasks[w].artifact.exclude_filters = artifacts[1].exclude_filters

\* C15: the key of every task is the path of its file relative to the output
\* directory, behind "_chunked_" for a chunk task, behind "_chunked_dir_" for
\* a chunk_dir task and bare for a standard task
C15_KeyIsPrefixedRelativePath ==
    \A t \in TaskIds :
        \E e \in RegularFiles :
            /\ tasks[t].artifact.source_path = DistDir \o <<"/">> \o e.path
            /\ tasks[t].path =
                  IF tasks[t].artifact.standard THEN e.path
                  ELSE IF tasks[t].artifact.chunk_dir THEN <<"_chunked_", "dir_">> \o e.path
                  ELSE <<"_chunked_">> \o e.path

\* a file below the top level of the output directory got a standard, a chunk
\* and a chunk_dir task
C15_Witness ==
    /\ pc = "created"
    /\ \E t, u, w \in TaskIds :
          /\ tasks[t].path = <<"sub", "/", "a", ".zip">>
          /\ tasks[u].path = <<"_chunked_", "sub", "/", "a", ".zip">>
          /\ tasks[w].path = <<"_chunked_", "dir_", "sub", "/", "a", ".zip">>

\* C16: two variations that differ in the file or in the mode never get the
\* same key, and when create_upload_tasks has returned every file that was
\* matched has a task in every mode its config asked for
C16_KeysUniquePerFileAndMode ==
    pc = "created" =>
        /\ \A i, j \in ConfigIds : \A c \in Candidates(i), d \in Candidates(j) :
              c.key = d.key =>
                  /\ c.artifact.source_path = d.artifact.source_path
                  /\ TrueModes(c.artifact) = TrueModes(d.artifact)
        /\ \A i \in ConfigIds : \A c \in Candidates(i) :
              \E t \in TaskIds :
                  /\ tasks[t].artifact.source_path = c.artifact.source_path
                  /\ TrueModes(tasks[t].artifact) = TrueModes(c.artifact)

PathFlags == {<<"-file-path">>, <<"-zip-path">>, <<"-dir-path">>}

HasFlag(cmd, flag) == \E k \in 1..Len(cmd) : cmd[k] = flag

\* C17: the command line of every task has exactly one path flag: -file-path
\* without -chunk for standard with unzip off, -zip-path without -chunk for
\* standard with unzip on, -file-path with -chunk for chunk, -zip-path with
\* -chunk for chunk_dir
C17_CommandFlags ==
    \A t \in TaskIds :
        LET cmd == CommandOf(t)
            a == tasks[t].artifact
            expected == IF a.standard
                        THEN IF a.unzip THEN <<"-zip-path">> ELSE <<"-file-path">>
                        ELSE IF a.chunk THEN <<"-file-path">> ELSE <<"-zip-path">>
        IN  /\ Cardinality({k \in 1..Len(cmd) : cmd[k] \in PathFlags}) = 1
            /\ HasFlag(cmd, expected)
            /\ HasFlag(cmd, <<"-chunk">>) <=> ~a.standard

\* the clients of a standard task with unzip on and of a chunk_dir task have
\* been launched
C17_Witness ==
    \E t, u \in TaskIds :
        /\ invocations # <<>>
        /\ invocations[t] = 1 /\ tasks[t].artifact.standard /\ tasks[t].artifact.unzip
        /\ invocations[u] = 1 /\ tasks[u].artifact.chunk_dir

Anchored(c) == StartsWith(c.source_path, <<"./">>)

\* C18: when create_upload_tasks has returned, the tasks of a config whose
\* pattern starts with "./" are for the matching regular files at the top of
\* the output directory and no others, and a config without the "./" (and
\* with a mode set) has a task for every regular file whose name matches,
\* at the top level and below it
C18_GlobDepth ==
    pc = "created" =>
        \A i \in ConfigIds :
            LET c == artifacts[i]
                taskFiles == {tasks[t].artifact.source_path : t \in TaskIds}
            IN  IF Anchored(c)
                THEN Len(artifacts) = 1 =>
                        \A f \in taskFiles :
                            \E e \in RegularFiles :
                                /\ f = AbsPath(e.path)
                                /\ AtTopLevel(e.path)
                                /\ FnMatch(Tail(c.source_path), e.path)
                ELSE TrueModes(c) # {} =>
                        \A e \in RegularFiles :
                            FnMatch(c.source_path, BaseName(e.path)) =>
                                AbsPath(e.path) \in taskFiles

\* an anchored config was resolved into a task for a.zip at the top level
\* while sub/a.zip, which its pattern would match by name, got none
C18_Witness ==
    /\ pc = "created"
    /\ Len(artifacts) = 1
    /\ Anchored(artifacts[1])
    /\ \E e \in RegularFiles : e.path = <<"sub", "/", "a", ".zip">>
    /\ \E t \in TaskIds : tasks[t].artifact.source_path = AbsPath(<<"a", ".zip">>)
    /\ \A t \in TaskIds : tasks[t].artifact.source_path # AbsPath(<<"sub", "/", "a", ".zip">>)

(***************************************************************************)
(* Properties of ArtifactManager.override_artifacts.                       *)
(***************************************************************************)
\* the mapping name -> field values that a dictionary of references stands for
ManagerConfigs(objects, dict) == [n \in DOMAIN dict |-> objects[dict[n]]]

RECURSIVE ApplyInOrder(_, _, _)
\* the mapping obtained by applying the overrides of rest one after another
ApplyInOrder(objects, dict, rest) ==
    IF rest = <<>> THEN ManagerConfigs(objects, dict)
    ELSE LET after == ProcessArtifactOverride(objects, dict, Head(rest))
         IN  ApplyInOrder(after.heap, after.artifacts, Tail(rest))

\* C19: when override_artifacts ends it has gone through every override of
\* the sequence and returned, and the manager's mapping is the one obtained
\* by applying the overrides to the preset one after another, in order
C19_AllOverridesApplied ==
    mpc \in {"returned", "raised"} =>
        /\ mpc = "returned"
        /\ processed = Len(overrides)
        /\ ManagerConfigs(heap, manager_artifacts)
              = ApplyInOrder(PresetObjects, PresetArtifacts, overrides)

\* C20: processing an override "name=" whose name is in the manager's mapping
\* removes that name from the mapping and leaves every other entry as it was
C20_DeleteRemovesOnlyName ==
    [][\A name \in DOMAIN manager_artifacts :
          (/\ mpc = "overriding"
           /\ processed < Len(overrides)
           /\ overrides[processed + 1] = name \o <<"=">>
           /\ processed' = processed + 1)
          => /\ DOMAIN manager_artifacts' = DOMAIN manager_artifacts \ {name}
             /\ \A n \in DOMAIN manager_artifacts' :
                   heap'[manager_artifacts'[n]] = heap[manager_artifacts[n]]]_vars

\* override_artifacts has returned after "img=" was applied to a mapping that
\* held img: img is gone and apex is what the preset gave
C20_Witness ==
    /\ mpc = "returned"
    /\ overrides = <<<<"img", "=">>>>
    /\ DOMAIN manager_artifacts = {<<"apex">>}
    /\ heap[manager_artifacts[<<"apex">>]] = PresetObjects[1]

\* the override the loop is at has no "=" in it
NoEquals(override) == \A i \in DOMAIN override : override[i] # "="

\* the override the loop is at is "name=" for a name the mapping does not hold
DeleteOfUnknown(override) ==
    /\ override # <<>>
    /\ override[Len(override)] = "="
    /\ NoEquals(SubSeq(override, 1, Len(override) - 1))
    /\ SubSeq(override, 1, Len(override) - 1) \notin DOMAIN manager_artifacts

\* C21: an override without "=" and a delete override "name=" for a name that
\* is not in the mapping leave the manager's mapping as it was and raise
\* nothing: the loop goes on to the next override
C21_MalformedAndUnknownDeleteSkipped ==
    [][(/\ mpc = "overriding"
        /\ processed < Len(overrides)
        /\ \/ NoEquals(overrides[processed + 1])
           \/ DeleteOfUnknown(overrides[processed + 1]))
       => /\ mpc' = "overriding"
          /\ processed' = processed + 1
          /\ ManagerConfigs(heap', manager_artifacts')
                = ManagerConfigs(heap, manager_artifacts)]_vars

\* override_artifacts has returned from its first call after an override
\* without "=" and a delete of a name the mapping never held: the mapping is
\* the preset
C21_Witness ==
    /\ mpc = "returned"
    /\ calls = 1
    /\ overrides = <<<<"invalid">>, <<"new", "=">>>>
    /\ ManagerConfigs(heap, manager_artifacts)
          = ManagerConfigs(PresetObjects, PresetArtifacts)

\* C22: override_artifacts returns without raising for every override string,
\* a value made only of white space after "=" included, and goes through the
\* overrides that follow a malformed one
C22_NeverRaises ==
    /\ mpc # "raised"
    /\ mpc = "returned" => processed = Len(overrides)

\* C23: a further call of override_artifacts with the same overrides, on the
\* mapping the first call left, ends with the mapping the first call left
C23_OverridesIdempotent ==
    (mpc = "returned" /\ calls >= 2) =>
        ManagerConfigs(heap, manager_artifacts) = first_result

\* the second call has returned for overrides that changed the preset: apex
\* has a new path and unzip set, img is deleted
C23_Witness ==
    /\ mpc = "returned"
    /\ calls = 2
    /\ overrides = <<<<"apex", "=", "q", " ", "unzip">>, <<"img", "=">>>>
    /\ DOMAIN manager_artifacts = {<<"apex">>}
    /\ heap[manager_artifacts[<<"apex">>]].source_path = <<"q">>
    /\ heap[manager_artifacts[<<"apex">>]].unzip
    /\ first_result # ManagerConfigs(PresetObjects, PresetArtifacts)

\* the description an override string of the form 'name=source_path
\* attributes' was written from
DescriptionOf ==
    [o \in {ComposeOverride(d) : d \in OverrideDescriptions} |->
        CHOOSE d \in OverrideDescriptions : ComposeOverride(d) = o]

\* the loop is at an override of that form
AtDescribedOverride ==
    /\ mpc = "overriding"
    /\ processed < Len(overrides)
    /\ overrides[processed + 1] \in DOMAIN DescriptionOf

\* the value of the flag an attribute name stands for
Flag(config, attr) ==
    CASE attr = <<"unzip">> -> config.unzip
      [] attr = <<"standard">> -> config.standard
      [] attr = <<"chunk">> -> config.chunk
      [] attr = <<"chunk", "_dir">> -> config.chunk_dir

\* some token of the override names the attribute
Named(d, attr) == \E i \in DOMAIN d.attrs : d.attrs[i].attr = attr

\* the entry a new name starts from
NewEntry(path) == ArtifactConfig(path, FALSE, TRUE, FALSE, FALSE, <<>>)

\* the entry the override works on: the one the name has, or a new one
EntryBefore(d) ==
    IF d.name \in DOMAIN manager_artifacts
    THEN heap[manager_artifacts[d.name]]
    ELSE NewEntry(d.source_path)

\* what an attribute token asks for when the attribute was old before
Asked(a, old) ==
    IF a.bare THEN TRUE
    ELSE IF a.value \in {<<"true">>, <<"True">>, <<"TRUE">>, <<"t">>, <<"T">>, <<"1">>}
         THEN TRUE
    ELSE IF a.value \in {<<"false">>, <<"False">>, <<"FALSE">>, <<"f">>, <<"F">>, <<"0">>}
         THEN FALSE
    ELSE old

\* C24: processing "NAME=PATH ..." gives NAME the source_path PATH; an entry
\* that existed keeps every flag the override does not name; a name that did
\* not exist gets a new entry with unzip=false, standard=true, chunk=false,
\* chunk_dir=false, modified by the named attributes; the entries of the
\* other names are as before
C24_UpdateOrCreate ==
    [][AtDescribedOverride =>
        LET d == DescriptionOf[overrides[processed + 1]]
            before == EntryBefore(d)
        IN  /\ mpc' = "overriding"
            /\ processed' = processed + 1
            /\ DOMAIN manager_artifacts' = DOMAIN manager_artifacts \cup {d.name}
            /\ LET after == heap'[manager_artifacts'[d.name]]
               IN  /\ after.source_path = d.source_path
                   /\ after.exclude_filters = before.exclude_filters
                   /\ \A attr \in AttributeNames :
                         ~Named(d, attr) => Flag(after, attr) = Flag(before, attr)
                   /\ d.name \notin DOMAIN manager_artifacts =>
                         \A i \in DOMAIN d.attrs :
                            Flag(after, d.attrs[i].attr)
                               = Asked(d.attrs[i], Flag(NewEntry(d.source_path), d.attrs[i].attr))
            /\ \A n \in DOMAIN manager_artifacts \ {d.name} :
                  heap'[manager_artifacts'[n]] = heap[manager_artifacts[n]]]_vars

\* the first call has returned after "new=q chunk_dir" created an entry and
\* "img=q unzip=1" updated one: new has the defaults and chunk_dir, img has
\* the new path, unzip set and the flags of the preset, apex is the preset's
C24_Witness ==
    /\ mpc = "returned"
    /\ calls = 1
    /\ overrides = <<<<"new", "=", "q", " ", "chunk", "_dir">>,
                     <<"img", "=", "q", " ", "unzip", "=", "1">>>>
    /\ DOMAIN manager_artifacts = {<<"apex">>, <<"img">>, <<"new">>}
    /\ heap[manager_artifacts[<<"new">>]]
          = ArtifactConfig(<<"q">>, FALSE, TRUE, FALSE, TRUE, <<>>)
    /\ heap[manager_artifacts[<<"img">>]]
          = ArtifactConfig(<<"q">>, TRUE, TRUE, TRUE, TRUE, <<>>)
    /\ heap[manager_artifacts[<<"apex">>]] = PresetObjects[1]

\* C25: a bare token ATTR sets the attribute to true; ATTR=VALUE sets it to
\* true for true, t, 1 and to false for false, f, 0, in any case of letters;
\* for any other VALUE the attribute keeps the value it had, and the rest of
\* the override (the path, the other attribute tokens) is applied
C25_AttributeValues ==
    [][AtDescribedOverride =>
        LET d == DescriptionOf[overrides[processed + 1]]
            before == EntryBefore(d)
        IN  /\ processed' = processed + 1
            /\ d.name \in DOMAIN manager_artifacts'
            /\ LET after == heap'[manager_artifacts'[d.name]]
               IN  /\ after.source_path = d.source_path
                   /\ \A i \in DOMAIN d.attrs :
                         Flag(after, d.attrs[i].attr)
                            = Asked(d.attrs[i], Flag(before, d.attrs[i].attr))]_vars

\* the first call has returned after "img=q chunk=invalid standard=0": chunk
\* is still true, standard is false and the path is the new one
C25_Witness ==
    /\ mpc = "returned"
    /\ calls = 1
    /\ overrides = <<<<"img", "=", "q", " ", "chunk", "=", "invalid", " ",
                       "standard", "=", "0">>>>
    /\ heap[manager_artifacts[<<"img">>]]
          = ArtifactConfig(<<"q">>, FALSE, FALSE, TRUE, TRUE, <<>>)

\* C26: unzip, standard, chunk and chunk_dir are set independently: a flag
\* of the entry changes only if a token of the override names that flag
C26_AttributesIndependent ==
    [][AtDescribedOverride =>
        LET d == DescriptionOf[overrides[processed + 1]]
            before == EntryBefore(d)
        IN  /\ d.name \in DOMAIN manager_artifacts'
            /\ \A attr \in AttributeNames :
                  Flag(heap'[manager_artifacts'[d.name]], attr) # Flag(before, attr)
                     => Named(d, attr)]_vars

\* the first call has returned after "img=q chunk_dir=0" alone: chunk_dir is
\* false and chunk is still true
C26_Witness ==
    /\ mpc = "returned"
    /\ calls = 1
    /\ overrides = <<<<"img", "=", "q", " ", "chunk", "_dir", "=", "0">>>>
    /\ heap[manager_artifacts[<<"img">>]].chunk
    /\ ~heap[manager_artifacts[<<"img">>]].chunk_dir

\* C27: whatever overrides were applied through the manager, the preset
\* mapping its constructor was given has the names and the field values it
\* had when it was passed
C27_PresetUntouched ==
    /\ DOMAIN preset = DOMAIN PresetArtifacts
    /\ ManagerConfigs(heap, preset) = ManagerConfigs(PresetObjects, PresetArtifacts)

(***************************************************************************)
(* Properties of main of the legacy script.                                *)
(***************************************************************************)
\* a CAS endpoint variable is unset or there is no client binary, neither
\* in the source tree nor among the prebuilts
CasSetupMissing ==
    \/ "RBE_instance" \notin script.environ
    \/ "RBE_service" \notin script.environ
    \/ (~script.client_files.bin /\ ~script.client_files.prebuilt)

EndsWithZip(path) == path # <<>> /\ path[Len(path)] \in {"zip", ".zip"}

\* C29: every entry of ARTIFACTS has at least one of standard, chunk and
\* chunk_dir true, and every entry with unzip true has a source_path that
\* ends in "zip"
\* (the table as the manager is given it, before any override is applied)
C29_PresetsValid ==
    (calls = 1 /\ processed = 0) =>
        /\ DOMAIN preset = DOMAIN ARTIFACTS
        /\ \A n \in DOMAIN preset :
              LET entry == heap[preset[n]]
              IN  /\ entry = ARTIFACTS[n]
                  /\ entry.standard \/ entry.chunk \/ entry.chunk_dir
                  /\ entry.unzip => EndsWithZip(entry.source_path)

\* a manager built from ARTIFACTS has returned from a call without
\* overrides: it holds the table, with the unzip entries android-cts and
\* tests, the chunked img and the plain cvd-host_package
C29_Witness ==
    /\ mpc = "returned"
    /\ overrides = <<>>
    /\ ManagerConfigs(heap, manager_artifacts) = ARTIFACTS
    /\ heap[manager_artifacts[<<"android-cts">>]].unzip
    /\ heap[manager_artifacts[<<"tests">>]].source_path = <<"*", "-tests-", "*", "zip">>
    /\ heap[manager_artifacts[<<"tests">>]].unzip
    /\ heap[manager_artifacts[<<"img">>]].chunk_dir
    /\ ~heap[manager_artifacts[<<"cvd-host_package">>]].unzip

\* ---------------------------------------------------------------------
\* Properties of the aggregation loop of upload

\* the aggregate grew by at most the contribution of task t
GrewByTask(t) ==
    /\ \A k \in DOMAIN file_digests' :
          (k \in DOMAIN file_digests /\ file_digests'[k] = file_digests[k]) \/ k = tasks[t].path
    /\ content_details' = content_details
       \/ /\ Len(content_details') = Len(content_details) + 1
          /\ SubSeq(content_details', 1, Len(content_details)) = content_details
          /\ content_details'[Len(content_details')].artifact = tasks[t].path
    /\ cas_metrics' = cas_metrics
       \/ /\ Len(cas_metrics') = Len(cas_metrics) + 1
          /\ SubSeq(cas_metrics', 1, Len(cas_metrics)) = cas_metrics
          /\ cas_metrics'[Len(cas_metrics')].metrics_file = tasks[t].metrics_file

\* C31: the digest map, the content details and the metrics list change only
\* in a step of the aggregating loop, which takes the result of exactly one
\* finished task; no step of a worker thread changes them
C31_SingleAggregator ==
    [][<<file_digests, content_details, cas_metrics>>' # <<file_digests, content_details, cas_metrics>> =>
          /\ pc = "folding"
          /\ runs' = runs /\ results' = results /\ invocations' = invocations
          /\ \E t \in TaskIds :
                /\ status[t] = "done"
                /\ status' = [status EXCEPT ![t] = "folded"]
                /\ folds' = [folds EXCEPT ![t] = @ + 1]
                /\ GrewByTask(t)]_vars

\* one result is in the digest map while another task is still with a worker
C31_Witness ==
    /\ pc = "folding"
    /\ \E t, u \in TaskIds :
          /\ status[t] = "folded" /\ tasks[t].path \in DOMAIN file_digests
          /\ status[u] = "running"
    /\ Len(content_details) > 0
    /\ Len(cas_metrics) > 0

\* C32: a task is folded only after its client run has ended, and in the
\* loop every task whose run has ended with a result can be folded at once,
\* whatever tasks submitted before it are still doing
C32_CompletionOrder ==
    /\ \A t \in DOMAIN status :
          status[t] = "folded" => runs[t] # NoRun /\ results[t] # Pending
    /\ \A t \in DOMAIN status :
          (pc = "folding" /\ status[t] = "done" /\ results[t].kind # "raised")
             => ENABLED FoldResult(t)

\* the second task is folded while the first is still with its worker
C32_Witness ==
    \E t, u \in DOMAIN status :
       /\ t < u
       /\ status[t] = "running"
       /\ status[u] = "folded" /\ folds[u] = 1

\* ---------------------------------------------------------------------
\* Properties of the metrics files and of the capability flags

\* the positions of the command line of task t that hold the token sequence x
Positions(t, x) == {i \in 1..Len(CommandOf(t)) : CommandOf(t)[i] = x}

\* C33: no two tasks have the same metrics file, and the command line a
\* worker runs for a task names no metrics file of another task; where the
\* client can dump metrics it names the task's own file, once, after
\* -dump-metrics
C33_OwnMetricsFile ==
    /\ \A t, u \in TaskIds : t # u => tasks[t].metrics_file # tasks[u].metrics_file
    /\ \A t \in DOMAIN status :
          status[t] = "running" =>
             /\ \A u \in TaskIds \ {t} :
                   Positions(t, MetricsFileName(tasks[u].metrics_file)) = {}
             /\ DumpMetrics(client_version) =>
                   /\ Cardinality(Positions(t, <<"-dump-metrics">>)) = 1
                   /\ Positions(t, MetricsFileName(tasks[t].metrics_file))
                         = {i + 1 : i \in Positions(t, <<"-dump-metrics">>)}
             /\ ~DumpMetrics(client_version) =>
                   Positions(t, MetricsFileName(tasks[t].metrics_file)) = {}

\* two workers run the client at once, each with the metrics file of its task
C33_Witness ==
    /\ DumpMetrics(client_version)
    /\ \E t, u \in DOMAIN status :
          /\ t # u
          /\ status[t] = "running" /\ status[u] = "running"
          /\ Positions(t, MetricsFileName(tasks[t].metrics_file)) # {}
          /\ Positions(u, MetricsFileName(tasks[u].metrics_file)) # {}

\* ---------------------------------------------------------------------
\* Matches that are not uploaded

\* the directories below the output directory
Directories == {AbsPath(e.path) : e \in {x \in Range(files) : x.isdir}}

\* the regular files the pattern of config i matches
RegularMatches(i) == Range(GlobWrapper(files, artifacts[i].source_path)) \ Directories

\* C34: when create_upload_tasks has returned, every config was resolved, no
\* task uploads a directory, every task uploads a regular file that some
\* config matched (a config that matched none has made no task), and every
\* regular file a config matched has a task for each of its variations
C34_DirectoriesAndEmptyMatches ==
    pc = "created" =>
        /\ consumed = Len(artifacts)
        /\ \A i \in ConfigIds : globbed[i].done
        /\ \A t \in TaskIds :
              /\ tasks[t].artifact.source_path \notin Directories
              /\ \E i \in ConfigIds : tasks[t].artifact.source_path \in RegularMatches(i)
        /\ (\A i \in ConfigIds : RegularMatches(i) = {}) => tasks = <<>>
        /\ \A i \in ConfigIds : \A f \in RegularMatches(i) :
              \A v \in Range(ArtifactVariations(GetRelativePath(DistDir, f), artifacts[i])) :
                 \E t \in TaskIds :
                    tasks[t].path = ArtifactPath(GetRelativePath(DistDir, f), v)

\* the first config matched nothing but a directory and made no task; the
\* second config was resolved after it and its file has a task
C34_Witness ==
    /\ pc = "created"
    /\ Len(artifacts) = 2
    /\ globbed[1].found # <<>>
    /\ Range(globbed[1].found) \subseteq Directories
    /\ RegularMatches(2) # {}
    /\ tasks # <<>>
    /\ \A t \in TaskIds : tasks[t].artifact.source_path \in RegularMatches(2)

\* ---------------------------------------------------------------------
\* Properties of the path flag

\* the call has returned -dir-path with a directory of its own under the
\* working directory, into which the artifact's file was copied
DirPathOfCopy ==
    /\ call.result.flags[1] = <<"-dir-path">>
    /\ call.result.flags[2] # call.arg.source_path
    /\ \E c \in call.result.copied :
          c.dir = call.result.flags[2] /\ c.name = BaseName(call.arg.source_path)

LexAtLeast(v, w) == v[1] > w[1] \/ (v[1] = w[1] /\ v[2] >= w[2])

\* C36: the command line of a task holds -dump-file-details exactly when the
\* client version is at least (1, 0) and -dump-metrics exactly when it is at
\* least (1, 3), major number first; whatever the version the task is run
\* once, and a run that leaves a digest gives a result
C36_CapabilityFlags ==
    /\ \A t \in DOMAIN status :
          /\ invocations[t] <= 1
          /\ status[t] = "running" =>
                /\ invocations[t] = 1
                /\ Positions(t, <<"-dump-file-details">>) # {}
                      <=> LexAtLeast(client_version, <<1, 0>>)
                /\ Positions(t, <<"-dump-metrics">>) # {}
                      <=> LexAtLeast(client_version, <<1, 3>>)
                /\ Cardinality(Positions(t, <<"-dump-file-details">>)) <= 1
                /\ Cardinality(Positions(t, <<"-dump-metrics">>)) <= 1
    /\ \A run \in RunsFor(client_version) :
          (run.kind = "exit_zero" /\ run.digest # "")
             => UploadArtifact(run, client_version).kind = "result"

\* a client of version 2.0 is run with both flags although its minor number
\* is below 3
C36_Witness ==
    /\ client_version = <<2, 0>>
    /\ \E t \in DOMAIN status :
          /\ status[t] = "running"
          /\ Positions(t, <<"-dump-file-details">>) # {}
          /\ Positions(t, <<"-dump-metrics">>) # {}

\* ---------------------------------------------------------------------
\* Properties of the legacy script's functions

\* the dictionary one override leaves, whichever way its iteration ends
Applied(dict, override) == OverrideArtifact(dict, override).ARTIFACTS

RECURSIVE AllApplied(_, _)
\* the dictionary after every one of the overrides was applied in order
AllApplied(dict, args) ==
    IF args = <<>> THEN dict
    ELSE AllApplied(Applied(dict, Head(args)), Tail(args))

\* C37: when _override_artifacts of the legacy script has returned, it has
\* gone through every override of args.artifacts, those after a delete
\* included, and ARTIFACTS is what applying all of them in order gives
C37_EveryOverrideApplied ==
    (call.fn = "_override_artifacts" /\ call.returned) =>
        /\ call.processed = Len(call.args)
        /\ call.ARTIFACTS = AllApplied(ScriptArtifacts, call.args)

\* the artifacts of the list passed in that have chunk and chunk_fallback set
WithFallback == SelectSeq(call.given, LAMBDA a : a.chunk /\ a.chunk_fallback)

\* the one fallback of such an artifact: the chunked version with unzip off
\* for an unzip artifact, the version without chunk for any other
OneFallback(a) ==
    IF a.unzip THEN [a EXCEPT !.unzip = FALSE, !.chunk = TRUE]
    ELSE [a EXCEPT !.chunk = FALSE]

\* C38: when _add_fallback_artifacts has returned, the list is the list
\* passed in followed by exactly one fallback for each of its artifacts that
\* has chunk and chunk_fallback set, and by nothing else
C38_OneFallbackEach ==
    (call.fn = "_add_fallback_artifacts" /\ call.returned) =>
        call.artifacts
           = call.given \o [i \in 1..Len(WithFallback) |-> OneFallback(WithFallback[i])]

\* ---------------------------------------------------------------------
\* Properties of the artifacts that are uploaded

\* the last return statement of _path_flag_for_artifact is reached: none of
\* the three tests before it has succeeded
ReachesFallback(artifact) == ~artifact.standard /\ ~artifact.chunk /\ ~artifact.chunk_dir

\* C39: every task that upload has handed to a worker carries an artifact
\* with exactly one of standard, chunk and chunk_dir set, so building its
\* command line never reaches the last return of _path_flag_for_artifact
C39_ExactlyOneMode ==
    \A t \in DOMAIN status :
        status[t] # "queued" =>
            /\ Cardinality({m \in {"standard", "chunk", "chunk_dir"} : tasks[t].artifact[m]}) = 1
            /\ ~ReachesFallback(tasks[t].artifact)

\* a config with all three modes set: its standard task and its chunk task
\* are with the workers, each with that one mode
C39_Witness ==
    /\ artifacts[1].standard /\ artifacts[1].chunk /\ artifacts[1].chunk_dir
    /\ \E t, u \in DOMAIN status :
          /\ status[t] = "running" /\ tasks[t].artifact.standard
          /\ status[u] = "running" /\ tasks[u].artifact.chunk
          /\ ~tasks[u].artifact.standard /\ ~tasks[t].artifact.chunk

\* ---------------------------------------------------------------------
\* Properties of the output files

\* an output file exists
SomeWritten == digests_out.written \/ details_out.written

\* C40: an output file exists only when upload has returned after folding
\* the result of every task once, and then both files exist and the manifest
\* has the digest of every task that produced one; while an error is on its
\* way out of upload, and after it has left, no output file exists
C40_OutputAfterAllFolded ==
    /\ SomeWritten =>
          /\ pc = "returned"
          /\ digests_out.written /\ details_out.written
          /\ DOMAIN status = 1..Len(tasks)
          /\ \A t \in DOMAIN status : status[t] = "folded" /\ folds[t] = 1
          /\ \A t \in DOMAIN status :
                (results[t].kind = "result" /\ results[t].digest # "")
                   => /\ tasks[t].path \in DOMAIN digests_out.content[1].files
                      /\ digests_out.content[1].files[tasks[t].path] = results[t].digest
    /\ pc \in {"raising", "raised"} => ~SomeWritten
    /\ dryrun => ~SomeWritten

\* both files were written after two results were folded, the manifest
\* holding both digests
C40_Witness ==
    /\ pc = "returned"
    /\ digests_out.written /\ details_out.written
    /\ Len(tasks) = 2
    /\ \A t \in DOMAIN status : status[t] = "folded" /\ results[t].kind = "result"
    /\ Cardinality(DOMAIN digests_out.content[1].files) = 2

====
